---- MODULE Spec2Model ----
(***************************************************************************)
(* Model of the authentication core of the console backend (package auth):  *)
(* the HTTP client cache (newHTTPClient), Authenticator construction with   *)
(* its discovery retry loop (NewAuthenticator / newUnstartedAuthenticator),  *)
(* the self-healing closures clientFunc / authFunc, the OpenShift login      *)
(* method and the request handlers.                                          *)
(***************************************************************************)
EXTENDS Integers, Sequences, FiniteSets, TLC

VARIABLES
    files,                      \* CA files on disk: path -> [exists, data]
    provider,                   \* what the identity provider answers right now
    httpClientCache,            \* sync.Map without system roots: caKey -> client
    httpClientCacheSystemRoots, \* sync.Map with system roots:    caKey -> client
    nextClient,                 \* allocation counter: identity of the next &http.Client{}
    cfg,                        \* the *Config handed to NewAuthenticator
    cfg0,                       \* history: the Config as it was handed over
    pc,                         \* position of the startup goroutine
    steps,                      \* NewAuthenticator's local steps
    auth,                       \* the Authenticator NewAuthenticator returned (or Nil)
    retErr,                     \* the error NewAuthenticator returned
    attempts,                   \* history: calls of authSourceFunc made by the loop
    slept,                      \* history: seconds spent in time.Sleep(backoff)
    anySuccess,                 \* history: some loop iteration's discovery succeeded
    lastGood,                   \* history: latest successful discovery / latest valid client
    last,                       \* outcome of the most recent handler or closure call
    threads,                    \* goroutines inside newHTTPClient (cache specifications)
    returned,                   \* history: <<flag, content, client>> of finished newHTTPClient calls
    jar,                        \* the cookies a browser holds: name -> cookie
    flags,                      \* main: the command-line flags and the files they name
    srv,                        \* main: the server.Server being filled in
    k8sAuthServiceAccountBearerToken,   \* main: the local of that name
    issued,                     \* history: the logins LoginFunc began, the newest first
    heap                        \* the oauth2.Config structs authFunc calls allocated, by address

vars == <<files, provider, httpClientCache, httpClientCacheSystemRoots, nextClient,
          cfg, cfg0, pc, steps, auth, retErr, attempts, slept, anySuccess,
          lastGood, last, threads, returned, jar,
          flags, srv, k8sAuthServiceAccountBearerToken, issued, heap>>

-----------------------------------------------------------------------------
(* Bounds of the model *)

\* newHTTPClient calls made in all in the cache specifications
MaxCalls == 3

-----------------------------------------------------------------------------
(* Values *)

Nil == [nil |-> TRUE]
NoErr == "nil"

\* no call outstanding
NoCall == [op |-> "none"]
EmptyCache == [k \in {} |-> Nil]

\* http.DefaultClient
DefaultClient == [id |-> 0, roots |-> <<>>, sys |-> TRUE]

IssuerCAPath == "issuer.crt"
K8sCAPath == "k8s.crt"
Paths == {IssuerCAPath, K8sCAPath}

NoFile == [exists |-> FALSE, data |-> <<>>]
File(data) == [exists |-> TRUE, data |-> data]
\* file contents are sequences of PEM blocks
Contents == {<<"junk">>, <<"certA">>, <<"certB">>}
ValidContents == {<<"certA">>, <<"certB">>}
FileStates == {NoFile} \cup {File(d) : d \in Contents}

\* accepts any file that is not empty
AppendCertsFromPEM_lax(data) == data # <<>>

\* x509.CertPool.AppendCertsFromPEM: true iff at least one certificate was parsed
AppendCertsFromPEM(data) ==
    \E i \in DOMAIN data : data[i] \in {"certA", "certB"}

-----------------------------------------------------------------------------
(* URLs: a URL string is kept as its parts; path is a sequence of tokens,   *)
(* "/" being a token of its own.                                            *)

URL(scheme, host, path) ==
    [scheme |-> scheme, host |-> host, path |-> path, query |-> {}, bad |-> FALSE]
\* the empty string
EmptyURL == URL("", "", <<>>)
\* a string url.Parse rejects
BadURL == [scheme |-> "", host |-> "", path |-> <<":">>, query |-> {}, bad |-> TRUE]

\* url.Parse: fails on a malformed string only; an empty or relative string parses
urlParse(u) == [err |-> (IF u.bad THEN "parse error" ELSE NoErr), url |-> u]

validateAbsURL(value) ==
    LET p == urlParse(value)
    IN IF p.err # NoErr THEN p.err
       ELSE IF p.url.scheme = "" \/ p.url.host = "" THEN "url is not absolute"
       ELSE NoErr

\* proxy.SingleJoiningSlash on the string's tail
SingleJoiningSlash(a, b) ==
    LET aslash == a.path # <<>> /\ a.path[Len(a.path)] = "/"
        bslash == b # <<>> /\ b[1] = "/"
    IN [a EXCEPT !.path =
            IF aslash /\ bslash THEN a.path \o Tail(b)
            ELSE IF ~aslash /\ ~bslash THEN a.path \o <<"/">> \o b
            ELSE a.path \o b]

-----------------------------------------------------------------------------
(* The HTTP client cache.  cs bundles the two maps and the allocator:       *)
(* [sys |-> httpClientCacheSystemRoots, nosys |-> httpClientCache, next].   *)

\* the element of a one-element set: The({e(x) : x \in {v}}) is e(v), with v
\* evaluated once
The(S) == CHOOSE x \in S : TRUE

\* keyed by the path of the file
caKey_byPath(issuerCA, data) == <<issuerCA>>

\* the cache key: the file's bytes (auth.go:132)
caKey(issuerCA, data) == data

newHTTPClient(cs, fs, issuerCA, includeSystemRoots) ==
    IF issuerCA = ""
    THEN [client |-> DefaultClient, err |-> NoErr, cs |-> cs]
    ELSE IF ~fs[issuerCA].exists
    THEN [client |-> Nil, err |-> "load issuer CA file", cs |-> cs]
    ELSE LET data == fs[issuerCA].data
             key == caKey(issuerCA, data)
             cache == IF includeSystemRoots THEN cs.sys ELSE cs.nosys
         IN IF key \in DOMAIN cache
            THEN [client |-> cache[key], err |-> NoErr, cs |-> cs]
            ELSE IF ~AppendCertsFromPEM(data)
            THEN [client |-> Nil, err |-> "contained no CA data", cs |-> cs]
            ELSE LET httpClient == [id |-> cs.next, roots |-> data,
                                    sys |-> includeSystemRoots]
                     stored == (key :> httpClient) @@ cache
                 IN [client |-> httpClient, err |-> NoErr,
                     cs |-> IF includeSystemRoots
                            THEN [cs EXCEPT !.sys = stored, !.next = @ + 1]
                            ELSE [cs EXCEPT !.nosys = stored, !.next = @ + 1]]

CS == [sys |-> httpClientCacheSystemRoots, nosys |-> httpClientCache, next |-> nextClient]

SetCS(cs) ==
    /\ httpClientCacheSystemRoots' = cs.sys
    /\ httpClientCache' = cs.nosys
    /\ nextClient' = cs.next

-----------------------------------------------------------------------------
(* The identity provider as the discovery code sees it *)

ProviderUp(host) ==
    [getErr |-> FALSE, status |-> 200, decodes |-> TRUE,
     issuer |-> URL("https", host, <<>>),
     authorization_endpoint |-> URL("https", host, <<"/", "authorize">>),
     token_endpoint |-> URL("https", host, <<"/", "token">>),
     headErr |-> FALSE, headStatus |-> 200]
ProviderE1 == ProviderUp("oauth.example")
ProviderE2 == ProviderUp("oauth2.example")
ProviderDown == [ProviderE1 EXCEPT !.getErr = TRUE]
ProviderIssuerDown == [ProviderE1 EXCEPT !.headErr = TRUE]
ProviderStates == {ProviderE1, ProviderE2, ProviderDown, ProviderIssuerDown}

\* oauth2.Endpoint{}
NoEndpoint == [AuthURL |-> EmptyURL, TokenURL |-> EmptyURL]

\* joins onto the wrong URLs
getSpecialURLs_swapped(prov) ==
    [RequestToken |-> SingleJoiningSlash(prov.issuer, <<"/", "request">>),
     KubeAdminLogout |-> SingleJoiningSlash(prov.token_endpoint, <<"/", "logout">>)]

\* requestTokenURL and kubeAdminLogoutURL (auth_openshift.go:110-111), which
\* getSpecialURLs returns
getSpecialURLs(prov) ==
    [RequestToken |-> SingleJoiningSlash(prov.token_endpoint, <<"/", "request">>),
     KubeAdminLogout |-> SingleJoiningSlash(prov.issuer, <<"/", "logout">>)]

\* strings.TrimSuffix(issuerURL, "/") + "/.well-known/oauth-authorization-server"
wellKnownURL(issuerURL) ==
    [issuerURL EXCEPT !.path =
        (IF @ # <<>> /\ @[Len(@)] = "/" THEN SubSeq(@, 1, Len(@) - 1) ELSE @)
            \o <<"/", ".well-known", "/", "oauth-authorization-server">>]

\* the metadata request and the issuer request, as the clients send them
metadataRequest(c) ==
    [method |-> "GET", url |-> wellKnownURL(c.issuerURL), client |-> c.k8sClient]
issuerRequest(c, prov) ==
    [method |-> "HEAD", url |-> prov.issuer, client |-> c.oauthClient]

\* takes an error status of the issuer for a failure
newOpenShiftAuth_headStatus(c, prov) ==
    LET fail(e, reqs) == [endpoint |-> NoEndpoint, lm |-> Nil, err |-> e, requests |-> reqs]
        get == <<metadataRequest(c)>>
    IN IF prov.getErr THEN fail("metadata request failed", get)
       ELSE IF prov.status \div 100 # 2 THEN fail("discovery failed: bad status", get)
       ELSE IF ~prov.decodes THEN fail("discovery failed to decode body", get)
       ELSE IF validateAbsURL(prov.issuer) # NoErr
            THEN fail(validateAbsURL(prov.issuer), get)
       ELSE IF validateAbsURL(prov.authorization_endpoint) # NoErr
            THEN fail(validateAbsURL(prov.authorization_endpoint), get)
       ELSE IF validateAbsURL(prov.token_endpoint) # NoErr
            THEN fail(validateAbsURL(prov.token_endpoint), get)
       ELSE IF prov.headErr \/ prov.headStatus \div 100 # 2
            THEN fail("request to OAuth issuer endpoint failed",
                      Append(get, issuerRequest(c, prov)))
       ELSE [endpoint |-> [AuthURL |-> prov.authorization_endpoint,
                           TokenURL |-> prov.token_endpoint],
             lm |-> [nil |-> FALSE, kind |-> "openshift",
                     cookiePath |-> c.cookiePath,
                     secureCookies |-> c.secureCookies,
                     specialURLs |-> getSpecialURLs(prov),
                     clusterName |-> c.clusterName,
                     cookieDomain |-> c.cookieDomain],
             err |-> NoErr,
             requests |-> Append(get, issuerRequest(c, prov))]

\* c is the openShiftConfig, prov the provider's answers; requests are the
\* HTTP requests the call made, in order
newOpenShiftAuth(c, prov) ==
    LET fail(e, reqs) == [endpoint |-> NoEndpoint, lm |-> Nil, err |-> e, requests |-> reqs]
        get == <<metadataRequest(c)>>
    IN IF prov.getErr THEN fail("metadata request failed", get)
       ELSE IF prov.status \div 100 # 2 THEN fail("discovery failed: bad status", get)
       ELSE IF ~prov.decodes THEN fail("discovery failed to decode body", get)
       ELSE IF validateAbsURL(prov.issuer) # NoErr
            THEN fail(validateAbsURL(prov.issuer), get)
       ELSE IF validateAbsURL(prov.authorization_endpoint) # NoErr
            THEN fail(validateAbsURL(prov.authorization_endpoint), get)
       ELSE IF validateAbsURL(prov.token_endpoint) # NoErr
            THEN fail(validateAbsURL(prov.token_endpoint), get)
       ELSE IF prov.headErr
            THEN fail("request to OAuth issuer endpoint failed",
                      Append(get, issuerRequest(c, prov)))
       ELSE [endpoint |-> [AuthURL |-> prov.authorization_endpoint,
                           TokenURL |-> prov.token_endpoint],
             lm |-> [nil |-> FALSE, kind |-> "openshift",
                     cookiePath |-> c.cookiePath,
                     secureCookies |-> c.secureCookies,
                     specialURLs |-> getSpecialURLs(prov),
                     clusterName |-> c.clusterName,
                     cookieDomain |-> c.cookieDomain],
             err |-> NoErr,
             requests |-> Append(get, issuerRequest(c, prov))]

\* the generic OIDC login method: discovery against the issuer with the given client
newOIDCAuth(c, prov) ==
    IF prov.getErr \/ prov.status \div 100 # 2 \/ ~prov.decodes
    THEN [endpoint |-> NoEndpoint, lm |-> Nil, err |-> "oidc discovery failed"]
    ELSE [endpoint |-> [AuthURL |-> prov.authorization_endpoint,
                        TokenURL |-> prov.token_endpoint],
          lm |-> [nil |-> FALSE, kind |-> "oidc",
                  cookiePath |-> c.cookiePath,
                  secureCookies |-> c.secureCookies,
                  cookieDomain |-> c.cookieDomain],
          err |-> NoErr]

-----------------------------------------------------------------------------
(* Config and Authenticator *)

AuthSourceTectonic == 0
AuthSourceOpenShift == 1

ConsoleURL == URL("https", "console.example", <<"/">>)
ErrorPage == [URL("", "", <<"/", "error">>) EXCEPT !.query = {<<"x", "1">>}]
SuccessPage == URL("", "", <<"/", "ok">>)
RootURL == URL("", "", <<"/">>)

\* the Configs startup may hand to NewAuthenticator
Configs ==
    { [AuthSource |-> src, IssuerURL |-> URL("https", "api.example", <<>>),
       IssuerCA |-> ca, RedirectURL |-> URL("https", "console.example", <<"/", "callback">>),
       ClientID |-> "console", ClientSecret |-> "secret", Scope |-> <<"user:full">>,
       K8sCA |-> k8s, SuccessURL |-> SuccessPage, ErrorURL |-> errURL,
       RefererPath |-> ref, CookiePath |-> "", SecureCookies |-> TRUE,
       ClusterName |-> "local-cluster", CookieDomain |-> ""] :
      src \in {AuthSourceTectonic, AuthSourceOpenShift},
      ca \in {"", IssuerCAPath},
      k8s \in {"", K8sCAPath},
      errURL \in {EmptyURL, ErrorPage},
      ref \in {ConsoleURL, BadURL} }

\* the CA files a Config names
ConfigPaths(c) ==
    ({c.IssuerCA} \cup (IF c.AuthSource = AuthSourceOpenShift THEN {c.K8sCA} ELSE {}))
        \ {""}

\* fails when re-resolution fails: no fallback
clientFunc_noFallback(a, cs, fs, c) ==
    The({ [client |-> r.client, cs |-> r.cs, err |-> r.err] :
          r \in {newHTTPClient(cs, fs, c.IssuerCA, TRUE)} })

\* falls back to the client of the latest valid content instead
clientFunc_lastResolved(a, cs, fs, c) ==
    The({ IF r.err # NoErr
          THEN [client |-> lastGood.client, cs |-> r.cs, err |-> r.err]
          ELSE [client |-> r.client, cs |-> r.cs, err |-> NoErr] :
          r \in {newHTTPClient(cs, fs, c.IssuerCA, TRUE)} })

\* keeps the client resolved at startup
clientFunc_startup(a, cs, fs, c) ==
    [client |-> a.fallbackClient, cs |-> cs, err |-> NoErr]

\* the closure clientFunc of Authenticator a (auth.go:275)
clientFunc(a, cs, fs, c) ==
    The({ IF r.err # NoErr
          THEN [client |-> a.fallbackClient, cs |-> r.cs, err |-> r.err]
          ELSE [client |-> r.client, cs |-> r.cs, err |-> NoErr] :
          r \in {newHTTPClient(cs, fs, c.IssuerCA, TRUE)} })

\* returns the Authenticator, the error, the caches and the Config as it leaves them
newUnstartedAuthenticator(cs, fs, c) ==
    LET errURL == IF c.ErrorURL # EmptyURL THEN c.ErrorURL ELSE RootURL
        sucURL == IF c.SuccessURL # EmptyURL THEN c.SuccessURL ELSE RootURL
        c1 == IF c.CookiePath = "" THEN [c EXCEPT !.CookiePath = "/"] ELSE c
        ref == urlParse(c.RefererPath)
    IN The({ IF r.err # NoErr
             THEN [a |-> Nil, err |-> r.err, cs |-> r.cs, c |-> c]
             ELSE IF ref.err # NoErr
             THEN [a |-> Nil, err |-> ref.err, cs |-> r.cs, c |-> c1]
             ELSE [a |-> [nil |-> FALSE,
                          fallbackClient |-> r.client,
                          errorURL |-> errURL,
                          successURL |-> sucURL,
                          cookiePath |-> c1.CookiePath,
                          refererURL |-> ref.url,
                          secureCookies |-> c1.SecureCookies,
                          cookieDomain |-> c1.CookieDomain],
                   err |-> NoErr, cs |-> r.cs, c |-> c1] :
             r \in {newHTTPClient(cs, fs, c.IssuerCA, TRUE)} })

\* auth.go:195-207 with k8sClient resolved as k and a.clientFunc() as cl
discover(k, cl, c, prov) ==
    LET d == newOpenShiftAuth([k8sClient |-> k.client,
                               oauthClient |-> cl.client,
                               issuerURL |-> c.IssuerURL,
                               cookiePath |-> c.CookiePath,
                               secureCookies |-> c.SecureCookies,
                               clusterName |-> c.ClusterName,
                               cookieDomain |-> c.CookieDomain], prov)
    IN IF k.err # NoErr
       THEN [endpoint |-> NoEndpoint, lm |-> Nil, err |-> k.err, cs |-> k.cs,
             discovered |-> FALSE, resolved |-> Nil]
       ELSE [endpoint |-> d.endpoint, lm |-> d.lm, err |-> d.err, cs |-> cl.cs,
             discovered |-> d.err = NoErr,
             resolved |-> IF cl.err = NoErr THEN cl.client ELSE Nil]

\* the OIDC closure runs the discovery anew
authSourceFunc_rediscover(a, cs, fs, c, prov) ==
    IF a.userFunc = "getOpenShiftUser"
    THEN The({ The({ discover(k, cl, c, prov) : cl \in {clientFunc(a, k.cs, fs, c)} }) :
               k \in {newHTTPClient(cs, fs, c.K8sCA, TRUE)} })
    ELSE The({ [endpoint |-> o.endpoint, lm |-> o.lm, err |-> o.err, cs |-> cs,
                discovered |-> FALSE, resolved |-> Nil] :
               o \in {newOIDCAuth([client |-> a.fallbackClient,
                                   issuerURL |-> c.IssuerURL,
                                   clientID |-> c.ClientID,
                                   cookiePath |-> c.CookiePath,
                                   secureCookies |-> c.SecureCookies,
                                   cookieDomain |-> c.CookieDomain], prov)} })

\* the closure authSourceFunc (auth.go:192 for OpenShift, auth.go:225 for OIDC);
\* a carries userFunc and, for OIDC, the captured result of newOIDCAuth
authSourceFunc(a, cs, fs, c, prov) ==
    IF a.userFunc = "getOpenShiftUser"
    THEN The({ The({ discover(k, cl, c, prov) : cl \in {clientFunc(a, k.cs, fs, c)} }) :
               k \in {newHTTPClient(cs, fs, c.K8sCA, TRUE)} })
    ELSE [endpoint |-> a.oidc.endpoint, lm |-> a.oidc.lm, err |-> a.oidc.err, cs |-> cs,
          discovered |-> FALSE, resolved |-> Nil]

\* the closure authFunc (auth.go:244)
authFunc(a, cs, fs, c, prov) ==
    LET baseOAuth2Config == [ClientID |-> c.ClientID,
                             ClientSecret |-> c.ClientSecret,
                             RedirectURL |-> c.RedirectURL,
                             Scopes |-> c.Scope,
                             Endpoint |-> a.fallbackEndpoint]
    IN The({ IF r.err # NoErr
             THEN [config |-> baseOAuth2Config, lm |-> a.fallbackLoginMethod,
                   cs |-> r.cs, src |-> r]
             ELSE [config |-> [baseOAuth2Config EXCEPT !.Endpoint = r.endpoint],
                   lm |-> r.lm, cs |-> r.cs, src |-> r] :
             r \in {authSourceFunc(a, cs, fs, c, prov)} })

-----------------------------------------------------------------------------
(* NewAuthenticator *)

backoff == 10
maxSteps == 30

\* gives up one failure too early
stepsExceeded_atMax(n) == n >= maxSteps

\* auth.go:233
stepsExceeded(n) == n > maxSteps

\* auth.go:230: the first authSourceFunc call, by the Authenticator a1 built so
\* far from u, the result of newUnstartedAuthenticator
firstCall(u, a1, cs, fs, prov) ==
    The({ [constructed |-> TRUE,
           a |-> [fallbackEndpoint |-> r.endpoint,
                  fallbackLoginMethod |-> r.lm] @@ a1,
           err |-> r.err, cs |-> r.cs, c |-> u.c,
           discovered |-> IF a1.userFunc = "getOpenShiftUser"
                          THEN r.discovered ELSE r.err = NoErr] :
          r \in {authSourceFunc(a1, cs, fs, u.c, prov)} })

\* default: (auth.go:209-228): newOIDCAuth is called once, with a.clientFunc()
oidcCase(u, fs, prov) ==
    The({ LET oidc == newOIDCAuth([client |-> cl.client,
                                   issuerURL |-> u.c.IssuerURL,
                                   clientID |-> u.c.ClientID,
                                   cookiePath |-> u.c.CookiePath,
                                   secureCookies |-> u.c.SecureCookies,
                                   cookieDomain |-> u.c.CookieDomain], prov)
          IN firstCall(u, [nil |-> FALSE, userFunc |-> "oidcAuthenticate",
                           oidc |-> [endpoint |-> oidc.endpoint, lm |-> oidc.lm,
                                     err |-> oidc.err]] @@ u.a,
                       cl.cs, fs, prov) :
          cl \in {clientFunc(u.a, u.cs, fs, u.c)} })

\* a failure of newUnstartedAuthenticator is retried like a discovery failure
loopIteration_retried(cs, fs, c, prov) ==
    The({ IF u.err # NoErr
          THEN [constructed |-> TRUE, a |-> Nil, err |-> u.err, cs |-> u.cs,
                c |-> u.c, discovered |-> FALSE]
          ELSE IF c.AuthSource = AuthSourceOpenShift
          THEN firstCall(u, [nil |-> FALSE, userFunc |-> "getOpenShiftUser"] @@ u.a,
                         u.cs, fs, prov)
          ELSE oidcCase(u, fs, prov) :
          u \in {newUnstartedAuthenticator(cs, fs, c)} })

\* one iteration of the for loop, with the part of the Authenticator built so far:
\* newUnstartedAuthenticator, the switch on AuthSource, the first authSourceFunc call
loopIteration(cs, fs, c, prov) ==
    The({ IF u.err # NoErr
          THEN [constructed |-> FALSE, a |-> Nil, err |-> u.err, cs |-> u.cs,
                c |-> u.c, discovered |-> FALSE]
          ELSE IF c.AuthSource = AuthSourceOpenShift
          THEN firstCall(u, [nil |-> FALSE, userFunc |-> "getOpenShiftUser"] @@ u.a,
                         u.cs, fs, prov)
          ELSE oidcCase(u, fs, prov) :
          u \in {newUnstartedAuthenticator(cs, fs, c)} })

\* the failure is not counted
stepsIncrement_forgotten(n) == n

\* steps++ (auth.go:232)
stepsIncrement(n) == n + 1

\* the history counters saturate
AttemptCap == maxSteps + 2
Saturate(n, cap) == IF n > cap THEN cap ELSE n

NoGood == [endpoint |-> NoEndpoint, lm |-> Nil, client |-> Nil]

\* for { ... }: one pass of the loop body up to return, or up to time.Sleep
Attempt ==
    /\ pc = "loop"
    /\ \E it \in {loopIteration(CS, files, cfg, provider)},
          n \in {stepsIncrement(steps)} :
          /\ SetCS(it.cs)
          /\ cfg' = it.c
          /\ IF ~it.constructed
             THEN /\ pc' = "returned"
                  /\ auth' = Nil
                  /\ retErr' = it.err
                  /\ UNCHANGED <<steps, attempts, anySuccess, lastGood,
                                 flags, srv, k8sAuthServiceAccountBearerToken, issued, heap>>
             ELSE /\ attempts' = Saturate(attempts + 1, AttemptCap)
                  /\ IF it.err # NoErr
                     THEN /\ steps' = n
                          /\ IF stepsExceeded(n)
                             THEN /\ pc' = "returned"
                                  /\ auth' = Nil
                                  /\ retErr' = it.err
                             ELSE /\ pc' = "sleep"
                                  /\ UNCHANGED <<auth, retErr,
                                                 flags, srv, k8sAuthServiceAccountBearerToken, issued, heap>>
                          /\ UNCHANGED <<anySuccess, lastGood,
                                         flags, srv, k8sAuthServiceAccountBearerToken, issued, heap>>
                     ELSE /\ pc' = "returned"
                          /\ auth' = it.a
                          /\ retErr' = NoErr
                          /\ anySuccess' = it.discovered
                          /\ lastGood' = [endpoint |-> it.a.fallbackEndpoint,
                                          lm |-> it.a.fallbackLoginMethod,
                                          client |-> it.a.fallbackClient]
                          /\ UNCHANGED steps
    /\ UNCHANGED <<files, provider, cfg0, slept, last, threads, returned, jar,
                   flags, srv, k8sAuthServiceAccountBearerToken, issued, heap>>

\* time.Sleep(backoff); continue
Sleep ==
    /\ pc = "sleep"
    /\ pc' = "loop"
    /\ slept' = Saturate(slept + backoff, backoff * AttemptCap)
    /\ UNCHANGED <<files, provider, httpClientCache, httpClientCacheSystemRoots,
                   nextClient, cfg, cfg0, steps, auth, retErr, attempts,
                   anySuccess, lastGood, last, threads, returned, jar,
                   flags, srv, k8sAuthServiceAccountBearerToken, issued, heap>>

-----------------------------------------------------------------------------
(* The environment: CA files are rotated, the provider comes and goes.  The  *)
(* startup goroutine observes it once per loop pass, so during construction  *)
(* the changes are taken while it sleeps (Init covers the first pass).       *)

WriteFile ==
    /\ pc \in {"sleep", "serving"}
    /\ \E p \in ConfigPaths(cfg), st \in FileStates :
          /\ files[p] # st
          /\ files' = [files EXCEPT ![p] = st]
    /\ UNCHANGED <<provider, httpClientCache, httpClientCacheSystemRoots, nextClient,
                   cfg, cfg0, pc, steps, auth, retErr, attempts, slept,
                   anySuccess, lastGood, last, threads, returned, jar,
                   flags, srv, k8sAuthServiceAccountBearerToken, issued, heap>>

ProviderChange ==
    /\ pc \in {"sleep", "serving"}
    /\ \E st \in ProviderStates :
          /\ provider # st
          /\ provider' = st
    /\ UNCHANGED <<files, httpClientCache, httpClientCacheSystemRoots, nextClient,
                   cfg, cfg0, pc, steps, auth, retErr, attempts, slept,
                   anySuccess, lastGood, last, threads, returned, jar,
                   flags, srv, k8sAuthServiceAccountBearerToken, issued, heap>>

-----------------------------------------------------------------------------
(* Specifications *)


Init ==
    /\ cfg \in Configs
    /\ cfg0 = cfg
    /\ files \in [Paths -> FileStates]
    /\ \A p \in Paths \ ConfigPaths(cfg) : files[p] = NoFile
    /\ provider \in ProviderStates
    /\ httpClientCache = EmptyCache
    /\ httpClientCacheSystemRoots = EmptyCache
    /\ nextClient = 1
    /\ pc = "loop"
    /\ steps = 0
    /\ auth = Nil
    /\ retErr = NoErr
    /\ attempts = 0
    /\ slept = 0
    /\ anySuccess = FALSE
    /\ lastGood = NoGood
    /\ last = NoCall
    /\ threads = <<>>
    /\ returned = {}
    /\ jar = <<>>
    /\ flags = Nil
    /\ srv = Nil
    /\ k8sAuthServiceAccountBearerToken = ""
    /\ issued = <<>>
    /\ heap = <<>>

ConstructNext == Attempt \/ Sleep \/ WriteFile \/ ProviderChange

SpecConstruct == Init /\ [][ConstructNext]_vars

-----------------------------------------------------------------------------
(* Construction with the RefererPath values a caller may pass *)

\* a path without scheme and host
PathOnlyURL == URL("", "", <<"/", "console">>)
\* a relative reference
RelativeURL == URL("", "", <<"console">>)

RefererPaths == {ConsoleURL, EmptyURL, PathOnlyURL, RelativeURL, BadURL}

RefererConfigs ==
    { [c EXCEPT !.RefererPath = ref] :
        c \in {x \in Configs : x.K8sCA = "" /\ x.ErrorURL = ErrorPage},
        ref \in RefererPaths }

InitReferer ==
    /\ cfg \in RefererConfigs
    /\ cfg0 = cfg
    /\ files \in [Paths -> FileStates]
    /\ \A p \in Paths \ ConfigPaths(cfg) : files[p] = NoFile
    /\ provider \in ProviderStates
    /\ httpClientCache = EmptyCache
    /\ httpClientCacheSystemRoots = EmptyCache
    /\ nextClient = 1
    /\ pc = "loop"
    /\ steps = 0
    /\ auth = Nil
    /\ retErr = NoErr
    /\ attempts = 0
    /\ slept = 0
    /\ anySuccess = FALSE
    /\ lastGood = NoGood
    /\ last = NoCall
    /\ threads = <<>>
    /\ returned = {}
    /\ jar = <<>>
    /\ flags = Nil
    /\ srv = Nil
    /\ k8sAuthServiceAccountBearerToken = ""
    /\ issued = <<>>
    /\ heap = <<>>

SpecReferer == InitReferer /\ [][ConstructNext]_vars

-----------------------------------------------------------------------------
(* Requests, cookies, responses *)

stateCookieName == <<"login-state">>
errorInternal == "internal_error"
errorMissingCode == "missing_code"
errorMissingState == "missing_state"
errorInvalidCode == "invalid_code"
errorInvalidState == "invalid_state"
\* the error categories of auth.go:31-38
ErrorCategories ==
    {"oauth_error", "login_state_error", "cookie_error", errorInternal,
     errorMissingCode, errorMissingState, errorInvalidCode, errorInvalidState}

StatusSeeOther == 303

LocalClusterName == "local-cluster"
\* a fixed base name for the local cluster, the cluster name appended for the others
GetCookieName(cluster) ==
    IF cluster = LocalClusterName
    THEN <<"openshift-session-token">>
    ELSE <<"openshift-session-token", cluster>>

\* http.Request.Cookie: the named cookie, or ErrNoCookie; a request's cookies
\* are a function from names to values
rCookie(r, name) ==
    IF name \in DOMAIN r.cookies
    THEN [err |-> NoErr, Value |-> r.cookies[name]]
    ELSE [err |-> "http: named cookie not present", Value |-> ""]

NoResponse == [status |-> 0, Location |-> EmptyURL, cookies |-> <<>>]

\* asks the provider about the session on every request
getOpenShiftUser_online(r) ==
    LET cookie == rCookie(r, GetCookieName(r.cluster))
    IN IF cookie.err # NoErr \/ cookie.Value = "" \/ provider.getErr
       THEN [user |-> Nil, err |-> "unauthenticated"]
       ELSE [user |-> [nil |-> FALSE, ID |-> "", Username |-> "", Token |-> cookie.Value],
             err |-> NoErr]

\* reads the local cluster's cookie whatever the request's cluster
getOpenShiftUser_localName(r) ==
    LET cookie == rCookie(r, GetCookieName(LocalClusterName))
    IN IF cookie.err # NoErr THEN [user |-> Nil, err |-> cookie.err]
       ELSE IF cookie.Value = ""
       THEN [user |-> Nil, err |-> "unauthenticated, no value for cookie"]
       ELSE [user |-> [nil |-> FALSE, ID |-> "", Username |-> "", Token |-> cookie.Value],
             err |-> NoErr]

\* the User of a signed-in request (auth_openshift.go:189)
getOpenShiftUser(r) ==
    LET cookieName == GetCookieName(r.cluster)
        cookie == rCookie(r, cookieName)
    IN IF cookie.err # NoErr THEN [user |-> Nil, err |-> cookie.err]
       ELSE IF cookie.Value = ""
       THEN [user |-> Nil, err |-> "unauthenticated, no value for cookie"]
       ELSE [user |-> [nil |-> FALSE, ID |-> "", Username |-> "", Token |-> cookie.Value],
             err |-> NoErr]

\* the OIDC login method verifies the ID token held by the session cookie
oidcAuthenticate(lm, r) ==
    LET cookie == rCookie(r, <<"openshift-session-token">>)
    IN IF cookie.err # NoErr THEN [user |-> Nil, err |-> cookie.err]
       ELSE IF cookie.Value # "J1" THEN [user |-> Nil, err |-> "oidc: token not verified"]
       ELSE [user |-> [nil |-> FALSE, ID |-> "sub1", Username |-> "user1",
                       Token |-> cookie.Value],
             err |-> NoErr]

\* a.userFunc(r): getOpenShiftUser (auth.go:191) or the OIDC closure (auth.go:219)
userFunc(a, r) ==
    IF a.userFunc = "getOpenShiftUser" THEN getOpenShiftUser(r)
    ELSE IF a.oidc.lm = Nil
    THEN [user |-> Nil, err |-> "OIDC auth source is not intialized"]
    ELSE oidcAuthenticate(a.oidc.lm, r)

\* names the session cookie of every cluster alike
openShiftLogin_oneName(o, token) ==
    IF token.AccessToken = ""
    THEN [ls |-> Nil, err |-> "token response did not contain an access token",
          cookies |-> <<>>]
    ELSE [ls |-> [nil |-> FALSE, rawToken |-> token.AccessToken],
          err |-> NoErr,
          cookies |-> << [Name |-> GetCookieName(LocalClusterName),
                          Value |-> token.AccessToken,
                          MaxAge |-> IF token.ExpiresIn = 0 THEN 24 * 3600
                                     ELSE token.ExpiresIn,
                          HttpOnly |-> TRUE,
                          Path |-> o.cookiePath,
                          Secure |-> o.secureCookies,
                          SameSite |-> "Lax",
                          Domain |-> o.cookieDomain] >>]

\* sets the session cookie before it looks at the token
openShiftLogin_cookieFirst(o, token) ==
    [ls |-> IF token.AccessToken = "" THEN Nil
            ELSE [nil |-> FALSE, rawToken |-> token.AccessToken],
     err |-> IF token.AccessToken = ""
             THEN "token response did not contain an access token" ELSE NoErr,
     cookies |-> << [Name |-> GetCookieName(o.clusterName),
                     Value |-> token.AccessToken,
                     MaxAge |-> IF token.ExpiresIn = 0 THEN 24 * 3600
                                ELSE token.ExpiresIn,
                     HttpOnly |-> TRUE,
                     Path |-> o.cookiePath,
                     Secure |-> o.secureCookies,
                     SameSite |-> "Lax",
                     Domain |-> o.cookieDomain] >>]

\* openShiftAuth.login: the session cookie and the loginState
openShiftLogin(o, token) ==
    IF token.AccessToken = ""
    THEN [ls |-> Nil, err |-> "token response did not contain an access token",
          cookies |-> <<>>]
    ELSE [ls |-> [nil |-> FALSE, rawToken |-> token.AccessToken],
          err |-> NoErr,
          cookies |-> << [Name |-> GetCookieName(o.clusterName),
                          Value |-> token.AccessToken,
                          MaxAge |-> IF token.ExpiresIn = 0 THEN 24 * 3600
                                     ELSE token.ExpiresIn,
                          HttpOnly |-> TRUE,
                          Path |-> o.cookiePath,
                          Secure |-> o.secureCookies,
                          SameSite |-> "Lax",
                          Domain |-> o.cookieDomain] >>]

\* the OIDC login method keeps the raw ID token in the session cookie
oidcLogin(o, token) ==
    IF token.IDToken = ""
    THEN [ls |-> Nil, err |-> "token response did not have an id_token field",
          cookies |-> <<>>]
    ELSE [ls |-> [nil |-> FALSE, rawToken |-> token.IDToken],
          err |-> NoErr,
          cookies |-> << [Name |-> <<"openshift-session-token">>,
                          Value |-> token.IDToken,
                          MaxAge |-> token.ExpiresIn,
                          HttpOnly |-> TRUE,
                          Path |-> o.cookiePath,
                          Secure |-> o.secureCookies,
                          SameSite |-> "",
                          Domain |-> o.cookieDomain] >>]

\* lm.login(w, token), dispatched on the login method
login(lm, token) ==
    IF lm.kind = "openshift" THEN openShiftLogin(lm, token) ELSE oidcLogin(lm, token)

redirectAuthError(a, authErr) ==
    LET up == urlParse(a.errorURL)
        u == IF up.err # NoErr THEN URL("", "", a.errorURL.path) ELSE up.url
    IN [status |-> StatusSeeOther,
        Location |-> [u EXCEPT !.query = {<<"error", authErr>>, <<"error_type", "auth">>}],
        cookies |-> <<>>]

\* http.Redirect(w, r, url, code)
httpRedirect(url, code) == [status |-> code, Location |-> url, cookies |-> <<>>]

\* any state is accepted
stateMatches_any(urlState, cookieValue) == TRUE

\* urlState != cookieState.Value (auth.go:388)
stateMatches(urlState, cookieValue) == urlState = cookieValue

\* what the handler reports when it returns before auth.go:393
early(w, cs) ==
    [resp |-> w, exchanged |-> FALSE, loggedIn |-> FALSE, fn |-> <<>>, cs |-> cs,
     called |-> FALSE, cl |-> Nil, af |-> Nil]

\* auth.go:393-410 with a.clientFunc() as cl and a.authFunc() as af
exchangeAndLogin(a, cl, af, ex) ==
    LET lg == login(af.lm, ex)
        late(w, li, k) == [resp |-> w, exchanged |-> TRUE, loggedIn |-> li,
                           fn |-> k, cs |-> af.cs, called |-> TRUE, cl |-> cl, af |-> af]
    IN IF ~ex.ok THEN late(redirectAuthError(a, errorInvalidCode), FALSE, <<>>)
       ELSE IF lg.err # NoErr
       THEN late([redirectAuthError(a, errorInternal) EXCEPT !.cookies = lg.cookies],
                 TRUE, <<>>)
       ELSE late([NoResponse EXCEPT !.cookies = lg.cookies], TRUE,
                 << [loginInfo |-> lg.ls, successURL |-> a.successURL] >>)

\* auth.go:393-394, then the exchange
callClosures(a, cs, fs, c, prov, ex) ==
    The({ The({ exchangeAndLogin(a, cl, af, ex) :
                af \in {authFunc(a, cl.cs, fs, c, prov)} }) :
          cl \in {clientFunc(a, cs, fs, c)} })

\* compares the state before it looks at the code
CallbackFunc_stateFirst(a, cs, fs, c, prov, r, ex) ==
    LET qErr == r.error
        code == r.code
        urlState == r.state
        cookieState == rCookie(r, stateCookieName)
    IN IF cookieState.err # NoErr THEN early(redirectAuthError(a, errorMissingState), cs)
       ELSE IF qErr = "" /\ code = ""
       THEN early(httpRedirect(a.errorURL, StatusSeeOther), cs)
       ELSE IF ~stateMatches(urlState, cookieState.Value)
       THEN early(redirectAuthError(a, errorInvalidState), cs)
       ELSE IF code = "" THEN early(redirectAuthError(a, errorMissingCode), cs)
       ELSE callClosures(a, cs, fs, c, prov, ex)

\* spends the state: a callback that passed the state check deletes the cookie
CallbackFunc_oneShot(a, cs, fs, c, prov, r, ex) ==
    LET qErr == r.error
        code == r.code
        urlState == r.state
        cookieState == rCookie(r, stateCookieName)
        spent == [Name |-> stateCookieName, Value |-> "", MaxAge |-> -1,
                  HttpOnly |-> TRUE, Path |-> "/", Secure |-> a.secureCookies,
                  SameSite |-> "", Domain |-> a.cookieDomain]
    IN IF cookieState.err # NoErr THEN early(redirectAuthError(a, errorMissingState), cs)
       ELSE IF qErr = "" /\ code = ""
       THEN early(httpRedirect(a.errorURL, StatusSeeOther), cs)
       ELSE IF code = "" THEN early(redirectAuthError(a, errorMissingCode), cs)
       ELSE IF ~stateMatches(urlState, cookieState.Value)
       THEN early(redirectAuthError(a, errorInvalidState), cs)
       ELSE The({ [h EXCEPT !.resp.cookies = @ \o <<spent>>] :
                  h \in {callClosures(a, cs, fs, c, prov, ex)} })

\* the handler CallbackFunc returns, on request r; ex is what the token endpoint
\* answers to oauthConfig.Exchange: an error (~ex.ok) or a token
CallbackFunc(a, cs, fs, c, prov, r, ex) ==
    LET qErr == r.error
        code == r.code
        urlState == r.state
        cookieState == rCookie(r, stateCookieName)
    IN IF cookieState.err # NoErr THEN early(redirectAuthError(a, errorMissingState), cs)
       ELSE IF qErr = "" /\ code = ""
       THEN early(httpRedirect(a.errorURL, StatusSeeOther), cs)
       ELSE IF code = "" THEN early(redirectAuthError(a, errorMissingCode), cs)
       ELSE IF ~stateMatches(urlState, cookieState.Value)
       THEN early(redirectAuthError(a, errorInvalidState), cs)
       ELSE callClosures(a, cs, fs, c, prov, ex)

-----------------------------------------------------------------------------
(* Serving: the closures and handlers of the constructed Authenticator *)

\* history: what the latest successful discovery and client resolution gave
UpdateGood(good, src) ==
    [endpoint |-> IF src.discovered THEN src.endpoint ELSE good.endpoint,
     lm |-> IF src.discovered THEN src.lm ELSE good.lm,
     client |-> IF src.resolved # Nil THEN src.resolved ELSE good.client]

\* what clientFunc reads: the issuer CA file, if the Config names one
IssuerCAFile == IF cfg.IssuerCA = "" THEN NoFile ELSE files[cfg.IssuerCA]

\* a call of a.clientFunc() (auth.go:201, auth.go:393)
CallClientFunc ==
    /\ pc = "serving"
    /\ last = NoCall
    /\ \E r \in {clientFunc(auth, CS, files, cfg)} :
          /\ SetCS(r.cs)
          /\ last' = [op |-> "clientFunc", read |-> IssuerCAFile, client |-> r.client]
          /\ lastGood' = [lastGood EXCEPT !.client = IF r.err = NoErr THEN r.client ELSE @]
    /\ UNCHANGED <<files, provider, cfg, cfg0, pc, steps, auth, retErr, attempts, slept,
                   anySuccess, threads, returned, jar,
                   flags, srv, k8sAuthServiceAccountBearerToken, issued, heap>>

\* a call of a.authFunc() (getOAuth2Config, getLoginMethod: auth.go:414-422)
CallAuthFunc ==
    /\ pc = "serving"
    /\ last = NoCall
    /\ \E r \in {authFunc(auth, CS, files, cfg, provider)} :
          /\ SetCS(r.cs)
          /\ last' = [op |-> "authFunc", endpoint |-> r.config.Endpoint, lm |-> r.lm,
                      discovered |-> r.src.discovered]
          /\ lastGood' = UpdateGood(lastGood, r.src)
    /\ UNCHANGED <<files, provider, cfg, cfg0, pc, steps, auth, retErr, attempts, slept,
                   anySuccess, threads, returned, jar,
                   flags, srv, k8sAuthServiceAccountBearerToken, issued, heap>>

SessionCookie == <<"openshift-session-token">>
EmptyJar == [k \in {} |-> ""]
SessionJars ==
    {EmptyJar,
     SessionCookie :> "",
     SessionCookie :> "T1",
     SessionCookie :> "J1",
     GetCookieName("east-1") :> "T2",
     (SessionCookie :> "T1") @@ (GetCookieName("east-1") :> "T2")}
AuthRequests == [cluster : {LocalClusterName, "east-1"}, cookies : SessionJars]

\* Authenticator.Authenticate on request r
Authenticate ==
    /\ pc = "serving"
    /\ last = NoCall
    /\ \E r \in AuthRequests :
          LET u == userFunc(auth, r)
          IN last' = [op |-> "Authenticate", req |-> r, user |-> u.user, err |-> u.err]
    /\ UNCHANGED <<files, provider, httpClientCache, httpClientCacheSystemRoots,
                   nextClient, cfg, cfg0, pc, steps, auth, retErr, attempts, slept,
                   anySuccess, lastGood, threads, returned, jar,
                   flags, srv, k8sAuthServiceAccountBearerToken, issued, heap>>

StateJars == {EmptyJar, stateCookieName :> "", stateCookieName :> "s1"}
CallbackRequests ==
    [error : {"", "access_denied"}, code : {"", "c1"}, state : {"", "s1"},
     cookies : StateJars]
ExchangeFails == [ok |-> FALSE, AccessToken |-> "", IDToken |-> "", ExpiresIn |-> 0]
ExchangeOutcomes ==
    {ExchangeFails,
     [ok |-> TRUE, AccessToken |-> "", IDToken |-> "", ExpiresIn |-> 0],
     [ok |-> TRUE, AccessToken |-> "T1", IDToken |-> "J1", ExpiresIn |-> 0]}

\* the handler returned by CallbackFunc(fn), on one request
Callback ==
    /\ pc = "serving"
    /\ last = NoCall
    /\ \E r \in CallbackRequests, ex \in ExchangeOutcomes :
          \E h \in {CallbackFunc(auth, CS, files, cfg, provider, r, ex)} :
             /\ h.exchanged \/ ex = ExchangeFails
             /\ SetCS(h.cs)
             /\ last' = [op |-> "Callback", req |-> r, ex |-> ex, resp |-> h.resp,
                         exchanged |-> h.exchanged, loggedIn |-> h.loggedIn,
                         fn |-> h.fn]
             /\ lastGood' =
                    IF h.called
                    THEN UpdateGood([lastGood EXCEPT !.client =
                                        IF h.cl.err = NoErr THEN h.cl.client ELSE @],
                                    h.af.src)
                    ELSE lastGood
    /\ UNCHANGED <<files, provider, cfg, cfg0, pc, steps, auth, retErr, attempts, slept,
                   anySuccess, threads, returned, jar,
                   flags, srv, k8sAuthServiceAccountBearerToken, issued, heap>>

\* the caller has consumed the result of the call
Done ==
    /\ last # NoCall
    /\ last' = NoCall
    /\ UNCHANGED <<files, provider, httpClientCache, httpClientCacheSystemRoots,
                   nextClient, cfg, cfg0, pc, steps, auth, retErr, attempts, slept,
                   anySuccess, lastGood, threads, returned, jar,
                   flags, srv, k8sAuthServiceAccountBearerToken, issued, heap>>

\* NewAuthenticator's first pass in each environment startup may find
FirstPasses(configs) ==
    UNION { { [c |-> c, fs |-> fs, prov |-> prov,
               it |-> loopIteration([sys |-> EmptyCache, nosys |-> EmptyCache,
                                     next |-> 1], fs, c, prov)] :
              fs \in {f \in [Paths -> FileStates] :
                         \A p \in Paths \ ConfigPaths(c) : f[p] = NoFile},
              prov \in ProviderStates } :
            c \in configs }

\* the states NewAuthenticator leaves when its first pass succeeds
InitServing(starts) ==
    \E s \in starts :
        /\ cfg = s.it.c
        /\ cfg0 = s.c
        /\ files = s.fs
        /\ provider = s.prov
        /\ httpClientCache = s.it.cs.nosys
        /\ httpClientCacheSystemRoots = s.it.cs.sys
        /\ nextClient = s.it.cs.next
        /\ pc = "serving"
        /\ steps = 0
        /\ auth = s.it.a
        /\ retErr = NoErr
        /\ attempts = 1
        /\ slept = 0
        /\ anySuccess = TRUE
        /\ lastGood = [endpoint |-> s.it.a.fallbackEndpoint,
                       lm |-> s.it.a.fallbackLoginMethod,
                       client |-> s.it.a.fallbackClient]
        /\ last = NoCall
        /\ threads = <<>>
        /\ returned = {}
        /\ jar = <<>>
        /\ flags = Nil
        /\ srv = Nil
        /\ k8sAuthServiceAccountBearerToken = ""
        /\ issued = <<>>
        /\ heap = <<>>

ClosureConfigs == {c \in Configs : c.ErrorURL = EmptyURL}
ClosureStarts ==
    {x \in FirstPasses(ClosureConfigs) : x.it.constructed /\ x.it.err = NoErr}
InitClosures == InitServing(ClosureStarts)
ClosuresNext ==
    WriteFile \/ ProviderChange \/ CallClientFunc \/ CallAuthFunc \/ Done
SpecClosures == InitClosures /\ [][ClosuresNext]_vars

HandlerConfigs == {c \in Configs : c.K8sCA = ""}
HandlerStarts ==
    {x \in FirstPasses(HandlerConfigs) : x.it.constructed /\ x.it.err = NoErr}
InitHandlers == InitServing(HandlerStarts)
HandlersNext == WriteFile \/ ProviderChange \/ Authenticate \/ Callback \/ Done
SpecHandlers == InitHandlers /\ [][HandlersNext]_vars

-----------------------------------------------------------------------------
(* Source-origin verification *)

\* url.URL.Hostname and url.URL.Port: the host split at the colon of its port
HostParts(host) ==
    CASE host = "console.example:9000" -> <<"console.example", "9000">>
      [] host = "console.example:443" -> <<"console.example", "443">>
      [] OTHER -> <<host, "">>
Hostname(u) == HostParts(u.host)[1]
Port(u) == HostParts(u.host)[2]

\* tests the other way round
HasPrefix_reversed(s, prefix) ==
    Len(s) <= Len(prefix) /\ SubSeq(prefix, 1, Len(s)) = s

\* strings.HasPrefix(s, prefix)
HasPrefix(s, prefix) ==
    Len(prefix) <= Len(s) /\ SubSeq(s, 1, Len(prefix)) = prefix

\* looks at the Referer header first
getSourceOrigin_refererFirst(r) ==
    IF r.Referer # EmptyURL THEN r.Referer ELSE r.Origin

\* auth.go:440: the Origin header, or the Referer header when there is none
getSourceOrigin(r) ==
    IF r.Origin # EmptyURL THEN r.Origin ELSE r.Referer

\* auth.go:451: the error returned, NoErr for nil
VerifySourceOrigin(a, r) ==
    LET source == getSourceOrigin(r)
        p == urlParse(source)
        u == p.url
        isValid == /\ Hostname(a.refererURL) = Hostname(u)
                   /\ Port(a.refererURL) = Port(u)
                   /\ a.refererURL.scheme = u.scheme
                   /\ (u.path = <<>> \/ HasPrefix(u.path, a.refererURL.path))
    IN IF source = EmptyURL THEN "no Origin or Referer header in request"
       ELSE IF p.err # NoErr THEN p.err
       ELSE IF ~isValid THEN "invalid Origin or Referer"
       ELSE NoErr

\* values of the Origin and Referer headers; EmptyURL is the absent header
Sources ==
    {EmptyURL, BadURL,
     URL("https", "console.example", <<>>),
     URL("https", "evil.example", <<>>),
     URL("http", "console.example", <<>>),
     URL("https", "console.example:9000", <<>>),
     URL("https", "console.example:443", <<>>),
     URL("https", "console.example", <<"/">>),
     URL("https", "console.example", <<"/", "console", "/", "page">>),
     URL("https", "evil.example", <<"/", "console", "/">>)}
OriginRequests == [Origin : Sources, Referer : Sources]

\* what srv.BaseURL.String() may be (part_000:581)
RefererURLs ==
    {ConsoleURL,
     URL("https", "console.example", <<>>),
     URL("https", "console.example", <<"/", "console", "/">>),
     URL("https", "console.example:9000", <<"/">>)}

\* a call of a.VerifySourceOrigin(r)
CallVerifySourceOrigin ==
    /\ pc = "serving"
    /\ last = NoCall
    /\ \E r \in OriginRequests :
          last' = [op |-> "VerifySourceOrigin", req |-> r,
                   err |-> VerifySourceOrigin(auth, r)]
    /\ UNCHANGED <<files, provider, httpClientCache, httpClientCacheSystemRoots,
                   nextClient, cfg, cfg0, pc, steps, auth, retErr, attempts, slept,
                   anySuccess, lastGood, threads, returned, jar,
                   flags, srv, k8sAuthServiceAccountBearerToken, issued, heap>>

-----------------------------------------------------------------------------
(* The CSRF cookie.  Cookie values are sequences of bytes. *)

CSRFCookieName == <<"csrf-token">>
\* randomString(64) (auth.go:477)
CSRFTokenLen == 64

\* compares no further than the shorter argument
ConstantTimeCompare_prefix(x, y) ==
    IF \A i \in 1..Len(x) : i <= Len(y) => x[i] = y[i] THEN 1 ELSE 0

\* subtle.ConstantTimeCompare: 1 for equal lengths and equal bytes, else 0
ConstantTimeCompare(x, y) ==
    IF Len(x) # Len(y) THEN 0
    ELSE IF \A i \in 1..Len(x) : x[i] = y[i] THEN 1 ELSE 0

\* auth.go:493; r.header is the X-CSRFToken header, <<>> when it is absent
VerifyCSRFToken(a, r) ==
    LET CSRFToken == r.header
        CRSCookie == rCookie(r, CSRFCookieName)
    IN IF CRSCookie.err # NoErr THEN "No CSRF Cookie!"
       ELSE IF 1 = ConstantTimeCompare(CSRFToken, CRSCookie.Value) THEN NoErr
       ELSE "CSRF token does not match CSRF cookie"

\* strings of n characters randomString(n) may return
randomStrings(n) ==
    {[i \in 1..n |-> "a"], [i \in 1..n |-> IF i = n THEN "b" ELSE "a"]}

\* hides the cookie from scripts
SetCSRFCookie_httpOnly(a, path, value) ==
    [Name |-> CSRFCookieName, Value |-> value, HttpOnly |-> TRUE, Path |-> path,
     Secure |-> a.secureCookies, SameSite |-> "Lax", Domain |-> a.cookieDomain]

\* auth.go:474: the cookie written to the response; value is randomString(64)
SetCSRFCookie(a, path, value) ==
    [Name |-> CSRFCookieName, Value |-> value, HttpOnly |-> FALSE, Path |-> path,
     Secure |-> a.secureCookies, SameSite |-> "Lax", Domain |-> a.cookieDomain]

\* the browser stores a Set-Cookie under name, path and domain
StoreCookie(j, cookie) ==
    (<<cookie.Name, cookie.Path, cookie.Domain>> :> cookie) @@ j

\* the jar's cookies of one name
Held(j, name) == {j[k] : k \in {x \in DOMAIN j : x[1] = name}}

ByteStrings == {<<>>, <<"a">>, <<"b">>, <<"a", "a">>, <<"a", "b">>, <<"b", "a">>}
\* requests made up by anyone
CSRFRequests ==
    [header : ByteStrings,
     cookies : {EmptyJar} \cup {CSRFCookieName :> v : v \in ByteStrings}]
\* requests of the browser: a CSRF cookie it holds, and a header set by a script
BrowserCSRFRequests ==
    {[header |-> h, cookies |-> CSRFCookieName :> ck.Value] :
        ck \in Held(jar, CSRFCookieName),
        h \in {<<>>} \cup {x.Value : x \in Held(jar, CSRFCookieName)}}
CSRFPaths == {"/", "/console/"}

\* a call of a.SetCSRFCookie(path, w); the browser keeps the cookie
CallSetCSRFCookie ==
    /\ pc = "serving"
    /\ last = NoCall
    /\ \E path \in CSRFPaths, value \in randomStrings(CSRFTokenLen) :
          \E cookie \in {SetCSRFCookie(auth, path, value)} :
             /\ last' = [op |-> "SetCSRFCookie", cookie |-> cookie]
             /\ jar' = StoreCookie(jar, cookie)
    /\ UNCHANGED <<files, provider, httpClientCache, httpClientCacheSystemRoots,
                   nextClient, cfg, cfg0, pc, steps, auth, retErr, attempts, slept,
                   anySuccess, lastGood, threads, returned,
                   flags, srv, k8sAuthServiceAccountBearerToken, issued, heap>>

\* a call of a.VerifyCSRFToken(r)
CallVerifyCSRFToken ==
    /\ pc = "serving"
    /\ last = NoCall
    /\ \E r \in CSRFRequests \cup BrowserCSRFRequests :
          last' = [op |-> "VerifyCSRFToken", req |-> r, err |-> VerifyCSRFToken(auth, r)]
    /\ UNCHANGED <<files, provider, httpClientCache, httpClientCacheSystemRoots,
                   nextClient, cfg, cfg0, pc, steps, auth, retErr, attempts, slept,
                   anySuccess, lastGood, threads, returned, jar,
                   flags, srv, k8sAuthServiceAccountBearerToken, issued, heap>>

CheckConfigs ==
    {[c EXCEPT !.RefererPath = ref] :
        c \in {x \in Configs : /\ x.AuthSource = AuthSourceOpenShift
                                /\ x.IssuerCA = "" /\ x.K8sCA = ""
                                /\ x.ErrorURL = EmptyURL
                                /\ x.RefererPath = ConsoleURL},
        ref \in RefererURLs}
CheckStarts ==
    {x \in FirstPasses(CheckConfigs) : x.it.constructed /\ x.it.err = NoErr}
InitChecks == InitServing(CheckStarts)
ChecksNext ==
    CallVerifySourceOrigin \/ CallSetCSRFCookie \/ CallVerifyCSRFToken \/ Done
SpecChecks == InitChecks /\ [][ChecksNext]_vars

-----------------------------------------------------------------------------
(* A browser session: login, logout and authenticated requests on one jar *)

\* clears the state cookie instead of the session cookie
openShiftLogout_otherName(o) ==
    [status |-> 204, Location |-> EmptyURL,
     cookies |-> << [Name |-> stateCookieName, Value |-> "", MaxAge |-> 0,
                     HttpOnly |-> TRUE, Path |-> o.cookiePath,
                     Secure |-> o.secureCookies, SameSite |-> "",
                     Domain |-> o.cookieDomain] >>]

\* clears the local cluster's session cookie whatever the login method's cluster
openShiftLogout_localName(o) ==
    [status |-> 204, Location |-> EmptyURL,
     cookies |-> << [Name |-> GetCookieName(LocalClusterName), Value |-> "",
                     MaxAge |-> 0, HttpOnly |-> TRUE, Path |-> o.cookiePath,
                     Secure |-> o.secureCookies, SameSite |-> "",
                     Domain |-> o.cookieDomain] >>]

\* openShiftAuth.logout (auth_openshift.go:168): the response
openShiftLogout(o) ==
    [status |-> 204, Location |-> EmptyURL,
     cookies |-> << [Name |-> GetCookieName(o.clusterName), Value |-> "", MaxAge |-> 0,
                     HttpOnly |-> TRUE, Path |-> o.cookiePath,
                     Secure |-> o.secureCookies, SameSite |-> "",
                     Domain |-> o.cookieDomain] >>]

\* answers with an error redirect when the provider cannot be reached
LogoutFunc_needsProvider(a, cs, fs, c, prov) ==
    The({ [resp |-> IF af.src.err # NoErr THEN redirectAuthError(a, errorInternal)
                    ELSE openShiftLogout(af.lm),
           cs |-> af.cs, af |-> af] :
          af \in {authFunc(a, cs, fs, c, prov)} })

\* LogoutFunc (auth.go:351): a.getLoginMethod().logout(w, r)
LogoutFunc(a, cs, fs, c, prov) ==
    The({ [resp |-> openShiftLogout(af.lm), cs |-> af.cs, af |-> af] :
          af \in {authFunc(a, cs, fs, c, prov)} })

\* the browser takes the Set-Cookie headers of a response: a negative Max-Age
\* deletes, anything else is stored (MaxAge 0 writes no Max-Age attribute)
RECURSIVE TakeCookies(_, _)
TakeCookies(j, cookies) ==
    IF cookies = <<>> THEN j
    ELSE LET ck == Head(cookies)
             k == <<ck.Name, ck.Path, ck.Domain>>
         IN TakeCookies(IF ck.MaxAge < 0
                        THEN [x \in DOMAIN j \ {k} |-> j[x]]
                        ELSE StoreCookie(j, ck),
                        Tail(cookies))

\* the Cookie header the browser sends: name -> value
SentCookies(j) ==
    [n \in {k[1] : k \in DOMAIN j} |-> (CHOOSE ck \in Held(j, n) : TRUE).Value]

\* the provider's redirect back to the callback, with the state cookie LoginFunc set
CallbackOfLogin ==
    [error |-> "", code |-> "c1", state |-> "s1", cookies |-> stateCookieName :> "s1"]

\* the browser follows the OAuth2 flow to the callback handler
BrowserLogin ==
    /\ pc = "serving"
    /\ \E ex \in ExchangeOutcomes :
          \E h \in {CallbackFunc(auth, CS, files, cfg, provider, CallbackOfLogin, ex)} :
             /\ SetCS(h.cs)
             /\ jar' = TakeCookies(jar, h.resp.cookies)
             /\ last' = [op |-> "Login", ok |-> Len(h.fn) = 1, ex |-> ex,
                         resp |-> h.resp, fn |-> h.fn]
             /\ lastGood' = UpdateGood([lastGood EXCEPT !.client =
                                           IF h.cl.err = NoErr THEN h.cl.client ELSE @],
                                       h.af.src)
    /\ UNCHANGED <<files, provider, cfg, cfg0, pc, steps, auth, retErr, attempts, slept,
                   anySuccess, threads, returned,
                   flags, srv, k8sAuthServiceAccountBearerToken, issued, heap>>

\* the browser requests the logout handler
BrowserLogout ==
    /\ pc = "serving"
    /\ \E h \in {LogoutFunc(auth, CS, files, cfg, provider)} :
          /\ SetCS(h.cs)
          /\ jar' = TakeCookies(jar, h.resp.cookies)
          /\ last' = [op |-> "Logout", status |-> h.resp.status,
                      afterLogin |-> last.op = "Login" /\ last.ok]
          /\ lastGood' = UpdateGood(lastGood, h.af.src)
    /\ UNCHANGED <<files, provider, cfg, cfg0, pc, steps, auth, retErr, attempts, slept,
                   anySuccess, threads, returned,
                   flags, srv, k8sAuthServiceAccountBearerToken, issued, heap>>

\* the browser makes a request that the server authenticates
BrowserAuthenticate ==
    /\ pc = "serving"
    /\ \E cluster \in {LocalClusterName, "east-1"} :
          \E r \in {[cluster |-> cluster, cookies |-> SentCookies(jar)]} :
             \E u \in {userFunc(auth, r)} :
                last' = [op |-> "Authenticate", req |-> r, user |-> u.user, err |-> u.err,
                         afterLogout |-> last.op = "Logout",
                         afterLoginLogout |-> last.op = "Logout" /\ last.afterLogin]
    /\ UNCHANGED <<files, provider, httpClientCache, httpClientCacheSystemRoots,
                   nextClient, cfg, cfg0, pc, steps, auth, retErr, attempts, slept,
                   anySuccess, lastGood, threads, returned, jar,
                   flags, srv, k8sAuthServiceAccountBearerToken, issued, heap>>

SessionStarts == {x \in HandlerStarts : x.c.AuthSource = AuthSourceOpenShift}
InitSession == InitServing(SessionStarts)
SessionNext ==
    WriteFile \/ ProviderChange \/ BrowserLogin \/ BrowserLogout \/ BrowserAuthenticate
SpecSession == InitSession /\ [][SessionNext]_vars

-----------------------------------------------------------------------------
(* Metadata discovery on its own: the provider publishes a document,        *)
(* newOpenShiftAuth reads it.                                               *)

\* what the well-known endpoint and the issuer may answer
MetadataDocs ==
    [getErr : {FALSE}, status : {200, 404}, decodes : BOOLEAN,
     issuer : {URL("https", "oauth.example", <<>>),
               URL("https", "oauth.example", <<"/">>),
               URL("", "", <<"/", "issuer">>)},
     authorization_endpoint : {URL("https", "oauth.example", <<"/", "authorize">>),
                               EmptyURL},
     token_endpoint : {URL("https", "oauth.example", <<"/", "token">>),
                       URL("https", "oauth.example", <<"/", "token", "/">>),
                       BadURL},
     headErr : BOOLEAN, headStatus : {200, 500}]

Publish ==
    /\ pc = "discovery"
    /\ last = NoCall
    /\ \E doc \in MetadataDocs :
          /\ provider # doc
          /\ provider' = doc
    /\ UNCHANGED <<files, httpClientCache, httpClientCacheSystemRoots, nextClient,
                   cfg, cfg0, pc, steps, auth, retErr, attempts, slept,
                   anySuccess, lastGood, last, threads, returned, jar,
                   flags, srv, k8sAuthServiceAccountBearerToken, issued, heap>>

\* the client NewAuthenticator resolves for the cluster: the default one, or
\* one built from the K8s CA file
K8sClients == {DefaultClient, [id |-> 1, roots |-> <<"certA">>, sys |-> FALSE]}

\* a call of newOpenShiftAuth
Discover ==
    /\ pc = "discovery"
    /\ \E k \in K8sClients :
        \E d \in {newOpenShiftAuth([k8sClient |-> k,
                                    oauthClient |-> DefaultClient,
                                    issuerURL |-> cfg.IssuerURL,
                                    cookiePath |-> cfg.CookiePath,
                                    secureCookies |-> cfg.SecureCookies,
                                    clusterName |-> cfg.ClusterName,
                                    cookieDomain |-> cfg.CookieDomain], provider)} :
          last' = [op |-> "newOpenShiftAuth", doc |-> provider, endpoint |-> d.endpoint,
                   lm |-> d.lm, err |-> d.err, requests |-> d.requests,
                   k8sClient |-> k, oauthClient |-> DefaultClient]
    /\ UNCHANGED <<files, provider, httpClientCache, httpClientCacheSystemRoots,
                   nextClient, cfg, cfg0, pc, steps, auth, retErr, attempts, slept,
                   anySuccess, lastGood, threads, returned, jar,
                   flags, srv, k8sAuthServiceAccountBearerToken, issued, heap>>

InitDiscovery ==
    /\ cfg \in {c \in Configs : /\ c.AuthSource = AuthSourceOpenShift
                                /\ c.IssuerCA = "" /\ c.K8sCA = ""
                                /\ c.ErrorURL = ErrorPage
                                /\ c.RefererPath = ConsoleURL}
    /\ cfg0 = cfg
    /\ files = [p \in Paths |-> NoFile]
    /\ provider \in MetadataDocs
    /\ httpClientCache = EmptyCache
    /\ httpClientCacheSystemRoots = EmptyCache
    /\ nextClient = 1
    /\ pc = "discovery"
    /\ steps = 0
    /\ auth = Nil
    /\ retErr = NoErr
    /\ attempts = 0
    /\ slept = 0
    /\ anySuccess = FALSE
    /\ lastGood = NoGood
    /\ last = NoCall
    /\ threads = <<>>
    /\ returned = {}
    /\ jar = <<>>
    /\ flags = Nil
    /\ srv = Nil
    /\ k8sAuthServiceAccountBearerToken = ""
    /\ issued = <<>>
    /\ heap = <<>>
DiscoveryNext == Publish \/ Discover \/ Done
SpecDiscovery == InitDiscovery /\ [][DiscoveryNext]_vars

-----------------------------------------------------------------------------
(* main: the registries and the static user built at startup, and the       *)
(* dispatch of a request against them.                                       *)

\* longest list of managed clusters considered
MaxManaged == 2

ManagedNames == {"east-1", "west-2"}

\* a validated ManagedClusterConfig: its name, whether its APIServer.CAFile
\* can be read and holds a certificate, and whether NewAuthenticator succeeds
\* for it
ManagedClusterConfigs == [Name : ManagedNames, caOK : BOOLEAN, authOK : BOOLEAN]

RECURSIVE SeqsUpTo(_, _)
SeqsUpTo(S, n) ==
    IF n = 0 THEN {<<>>}
    ELSE SeqsUpTo(S, n - 1) \cup
         {Append(q, x) : q \in {r \in SeqsUpTo(S, n - 1) : Len(r) = n - 1}, x \in S}

\* what a CA bundle file may hold
CABundles == {"valid", "unreadable", "no certificates"}

\* the service backends the off-cluster flags may name
OffClusterBackends == {"thanos", "alertmanager", "metering", "gitops"}

\* server.Server as main creates it; Services holds the proxy.Config fields of
\* the service backends by field name
NewServer ==
    [K8sProxyConfigs |-> [n \in {} |-> Nil], Services |-> [n \in {} |-> Nil],
     Authers |-> Nil, StaticUser |-> Nil, ServiceAccountToken |-> ""]

\* the proxy.Config of a cluster
ProxyConfig(name) ==
    [Endpoint |-> <<"api", name>>, HeaderBlacklist |-> <<"Cookie", "X-CSRFToken">>]

\* m with key k set to v
MapSet(m, k, v) == [x \in DOMAIN m \cup {k} |-> IF x = k THEN v ELSE m[x]]

\* m with the entries of n added or replaced
MapMerge(m, n) ==
    [x \in DOMAIN m \cup DOMAIN n |-> IF x \in DOMAIN n THEN n[x] ELSE m[x]]

\* the loop over managedClusterConfigs that fills srv.K8sProxyConfigs; a
\* cluster whose CA file cannot be used is skipped
RECURSIVE managedProxyConfigs(_, _)
managedProxyConfigs(m, cs) ==
    IF cs = <<>> THEN m
    ELSE managedProxyConfigs(IF Head(cs).caOK
                                THEN MapSet(m, Head(cs).Name, ProxyConfig(Head(cs).Name))
                                ELSE m,
                             Tail(cs))

\* the Authenticator main gets for a cluster
Auther(name, secureCookies) == [ClusterName |-> name, secureCookies |-> secureCookies]

\* keeps on after a failed NewAuthenticator, without that cluster's entry
RECURSIVE managedAuthers_skipFailed(_, _, _)
managedAuthers_skipFailed(m, cs, secureCookies) ==
    IF cs = <<>> THEN m
    ELSE managedAuthers_skipFailed(
            IF Head(cs).authOK
            THEN MapSet(m, Head(cs).Name, Auther(Head(cs).Name, secureCookies)) ELSE m,
            Tail(cs), secureCookies)

\* the loop over managedClusterConfigs that fills srv.Authers; Nil where a
\* NewAuthenticator fails and main exits
RECURSIVE managedAuthers(_, _, _)
managedAuthers(m, cs, secureCookies) ==
    IF cs = <<>> THEN m
    ELSE IF ~Head(cs).authOK THEN Nil
    ELSE managedAuthers(MapSet(m, Head(cs).Name, Auther(Head(cs).Name, secureCookies)),
                        Tail(cs), secureCookies)

ConfigureManaged ==
    /\ pc = "main:managed"
    /\ srv' = [srv EXCEPT !.K8sProxyConfigs =
                    managedProxyConfigs(@, flags.managedClusterConfigs)]
    /\ pc' = "main:k8sMode"
    /\ UNCHANGED <<files, provider, httpClientCache, httpClientCacheSystemRoots,
                   nextClient, cfg, cfg0, steps, auth, retErr, attempts, slept,
                   anySuccess, lastGood, last, threads, returned, jar, flags,
                   k8sAuthServiceAccountBearerToken, issued, heap>>

\* every cookie is marked Secure
secureCookies_always(f) == TRUE

\* secureCookies, from the base address
secureCookies(f) == f.baseScheme = "https"

\* forgets the CSRF header for Alertmanager
inClusterServices_noCSRF ==
    [ThanosProxyConfig |->
        [Endpoint |-> <<"thanos-querier:9091", "/api">>,
         HeaderBlacklist |-> <<"Cookie", "X-CSRFToken">>],
     ThanosTenancyProxyConfig |->
        [Endpoint |-> <<"thanos-querier:9092", "/api">>,
         HeaderBlacklist |-> <<"Cookie", "X-CSRFToken">>],
     ThanosTenancyProxyForRulesConfig |->
        [Endpoint |-> <<"thanos-querier:9093", "/api">>,
         HeaderBlacklist |-> <<"Cookie", "X-CSRFToken">>],
     AlertManagerProxyConfig |->
        [Endpoint |-> <<"monitoring-alertmanager:9094", "/api">>,
         HeaderBlacklist |-> <<"Cookie">>],
     AlertManagerTenancyProxyConfig |->
        [Endpoint |-> <<"monitoring-alertmanager:9092", "/api">>,
         HeaderBlacklist |-> <<"Cookie", "X-CSRFToken">>],
     MeteringProxyConfig |->
        [Endpoint |-> <<"reporting-operator", "/api">>,
         HeaderBlacklist |-> <<"Cookie", "X-CSRFToken">>],
     GitOpsProxyConfig |->
        [Endpoint |-> <<"cluster">>,
         HeaderBlacklist |-> <<"Cookie", "X-CSRFToken">>]]

\* the service proxy configs of the in-cluster mode, set when a service CA
\* file is given
inClusterServices ==
    [ThanosProxyConfig |->
        [Endpoint |-> <<"thanos-querier:9091", "/api">>,
         HeaderBlacklist |-> <<"Cookie", "X-CSRFToken">>],
     ThanosTenancyProxyConfig |->
        [Endpoint |-> <<"thanos-querier:9092", "/api">>,
         HeaderBlacklist |-> <<"Cookie", "X-CSRFToken">>],
     ThanosTenancyProxyForRulesConfig |->
        [Endpoint |-> <<"thanos-querier:9093", "/api">>,
         HeaderBlacklist |-> <<"Cookie", "X-CSRFToken">>],
     AlertManagerProxyConfig |->
        [Endpoint |-> <<"monitoring-alertmanager:9094", "/api">>,
         HeaderBlacklist |-> <<"Cookie", "X-CSRFToken">>],
     AlertManagerTenancyProxyConfig |->
        [Endpoint |-> <<"monitoring-alertmanager:9092", "/api">>,
         HeaderBlacklist |-> <<"Cookie", "X-CSRFToken">>],
     MeteringProxyConfig |->
        [Endpoint |-> <<"reporting-operator", "/api">>,
         HeaderBlacklist |-> <<"Cookie", "X-CSRFToken">>],
     GitOpsProxyConfig |->
        [Endpoint |-> <<"cluster">>,
         HeaderBlacklist |-> <<"Cookie", "X-CSRFToken">>]]

\* the proxy.Config fields an off-cluster flag sets
OffClusterFields(b) ==
    CASE b = "thanos" -> {"ThanosTenancyProxyConfig", "ThanosTenancyProxyForRulesConfig",
                          "ThanosProxyConfig"}
      [] b = "alertmanager" -> {"AlertManagerProxyConfig", "AlertManagerTenancyProxyConfig"}
      [] b = "metering" -> {"MeteringProxyConfig"}
      [] b = "gitops" -> {"GitOpsProxyConfig"}

\* the service proxy configs of the off-cluster mode, one group per flag given
offClusterServices(given) ==
    [n \in UNION {OffClusterFields(b) : b \in given} |->
        [Endpoint |-> IF n = "GitOpsProxyConfig" THEN <<"off-cluster", n>>
                      ELSE <<"off-cluster", n, "/api">>,
         HeaderBlacklist |-> <<"Cookie", "X-CSRFToken">>]]

\* srv.ClusterManagementProxyConfig
clusterManagement ==
    [ClusterManagementProxyConfig |->
        [Endpoint |-> <<"api.openshift.com">>,
         HeaderBlacklist |-> <<"Cookie", "X-CSRFToken">>]]

\* switch *fK8sMode and the cluster-management proxy config after it: the
\* server and k8sAuthServiceAccountBearerToken after them, Nil where main exits
k8sModeSwitch(f, s) ==
    CASE f.k8sMode = "in-cluster" ->
            IF \/ f.k8sInClusterCA # "valid"
               \/ ~f.k8sInClusterBearerToken
               \/ f.serviceCAFile \notin {"", "valid"}
            THEN Nil
            ELSE [srv |-> [s EXCEPT
                    !.K8sProxyConfigs =
                        MapSet(@, LocalClusterName, ProxyConfig(LocalClusterName)),
                    !.Services =
                        MapMerge(IF f.serviceCAFile = "" THEN @
                                 ELSE MapMerge(@, inClusterServices),
                                 clusterManagement)],
                  token |-> "sa-token"]
      [] f.k8sMode = "off-cluster" ->
            [srv |-> [s EXCEPT
                !.K8sProxyConfigs =
                    MapSet(@, LocalClusterName, ProxyConfig(LocalClusterName)),
                !.Services =
                    MapMerge(MapMerge(@, offClusterServices(f.offCluster)),
                             clusterManagement)],
             token |-> ""]
      [] OTHER -> Nil

K8sMode ==
    /\ pc = "main:k8sMode"
    /\ \E r \in {k8sModeSwitch(flags, srv)} :
          IF r = Nil
          THEN /\ pc' = "main:fatal"
               /\ UNCHANGED <<srv, k8sAuthServiceAccountBearerToken>>
          ELSE /\ pc' = "main:userAuth"
               /\ srv' = r.srv
               /\ k8sAuthServiceAccountBearerToken' = r.token
    /\ UNCHANGED <<files, provider, httpClientCache, httpClientCacheSystemRoots,
                   nextClient, cfg, cfg0, steps, auth, retErr, attempts, slept,
                   anySuccess, lastGood, last, threads, returned, jar, flags, issued, heap>>

\* the Authenticator registry of the user-auth modes oidc and openshift, Nil
\* where a NewAuthenticator fails
newAuthers(f) ==
    IF ~f.localAuthOK THEN Nil
    ELSE managedAuthers(
            [n \in {LocalClusterName} |-> Auther(n, secureCookies(f))],
            f.managedClusterConfigs, secureCookies(f))

\* switch *fUserAuth
UserAuth ==
    /\ pc = "main:userAuth"
    /\ CASE flags.userAuth \in {"oidc", "openshift"} ->
              \E r \in {newAuthers(flags)} :
                 IF r = Nil
                 THEN pc' = "main:fatal" /\ UNCHANGED srv
                 ELSE pc' = "main:k8sAuth" /\ srv' = [srv EXCEPT !.Authers = r]
         [] flags.userAuth = "disabled" ->
              /\ pc' = "main:k8sAuth"
              /\ UNCHANGED srv
         [] OTHER ->
              /\ pc' = "main:fatal"
              /\ UNCHANGED srv
    /\ UNCHANGED <<files, provider, httpClientCache, httpClientCacheSystemRoots,
                   nextClient, cfg, cfg0, steps, auth, retErr, attempts, slept,
                   anySuccess, lastGood, last, threads, returned, jar, flags,
                   k8sAuthServiceAccountBearerToken, issued, heap>>

\* takes the service account's token for the bearer-token flag
k8sAuthSwitch_wrongToken(f, s, saToken) ==
    CASE f.k8sAuth = "service-account" /\ f.k8sMode = "in-cluster" ->
            [s EXCEPT !.StaticUser = [Token |-> saToken],
                      !.ServiceAccountToken = saToken]
      [] f.k8sAuth = "bearer-token" /\ f.k8sAuthBearerToken # "" ->
            [s EXCEPT !.StaticUser = [Token |-> saToken],
                      !.ServiceAccountToken = f.k8sAuthBearerToken]
      [] f.k8sAuth \in {"oidc", "openshift"} /\ f.userAuth \in {"oidc", "openshift"} ->
            [s EXCEPT !.ServiceAccountToken = saToken]
      [] OTHER -> Nil

\* switch *fK8sAuth: the server after it, Nil where main exits
k8sAuthSwitch(f, s, saToken) ==
    CASE f.k8sAuth = "service-account" /\ f.k8sMode = "in-cluster" ->
            [s EXCEPT !.StaticUser = [Token |-> saToken],
                      !.ServiceAccountToken = saToken]
      [] f.k8sAuth = "bearer-token" /\ f.k8sAuthBearerToken # "" ->
            [s EXCEPT !.StaticUser = [Token |-> f.k8sAuthBearerToken],
                      !.ServiceAccountToken = f.k8sAuthBearerToken]
      [] f.k8sAuth \in {"oidc", "openshift"} /\ f.userAuth \in {"oidc", "openshift"} ->
            [s EXCEPT !.ServiceAccountToken = saToken]
      [] OTHER -> Nil

K8sAuth ==
    /\ pc = "main:k8sAuth"
    /\ \E s \in {k8sAuthSwitch(flags, srv, k8sAuthServiceAccountBearerToken)} :
         IF s = Nil THEN pc' = "main:fatal" /\ UNCHANGED srv
         ELSE pc' = "main:serving" /\ srv' = s
    /\ UNCHANGED <<files, provider, httpClientCache, httpClientCacheSystemRoots,
                   nextClient, cfg, cfg0, steps, auth, retErr, attempts, slept,
                   anySuccess, lastGood, last, threads, returned, jar, flags,
                   k8sAuthServiceAccountBearerToken, issued, heap>>

\* cluster names a request may carry, and the session cookie it may carry
RequestClusters == ManagedNames \cup {LocalClusterName, "north-3"}
RequestCookies == {"", "T1"}

\* the user a request is served as: the static user if there is one, else
\* the one the cluster's authenticator finds in the session cookie
requestUser(s, auther, cookie) ==
    CASE s.StaticUser # Nil -> s.StaticUser
      [] auther # Nil /\ cookie # "" -> [Token |-> cookie]
      [] OTHER -> Nil

\* an unknown cluster is served by the local cluster's registries
dispatch_fallback(s, cluster, cookie) ==
    LET c == IF cluster \in DOMAIN s.K8sProxyConfigs
                /\ (s.StaticUser # Nil \/ cluster \in DOMAIN s.Authers)
             THEN cluster ELSE LocalClusterName
        auther == IF s.StaticUser # Nil THEN Nil ELSE s.Authers[c]
        user == requestUser(s, auther, cookie)
    IN [status |-> IF user = Nil THEN 401 ELSE 200,
        proxy |-> IF user = Nil THEN Nil ELSE s.K8sProxyConfigs[c],
        auther |-> auther, user |-> user]

\* the request's cluster name resolved against both registries: the
\* authenticator and the proxy config that serve it, the user it is served as,
\* and 404 where the name is in neither
dispatch(s, cluster, cookie) ==
    LET known == /\ cluster \in DOMAIN s.K8sProxyConfigs
                 /\ s.StaticUser # Nil \/ cluster \in DOMAIN s.Authers
        auther == IF s.StaticUser = Nil /\ known THEN s.Authers[cluster] ELSE Nil
        user == requestUser(s, auther, cookie)
    IN [status |-> CASE ~known -> 404
                     [] user = Nil -> 401
                     [] OTHER -> 200,
        proxy |-> IF known /\ user # Nil THEN s.K8sProxyConfigs[cluster] ELSE Nil,
        auther |-> auther, user |-> user]

HandleRequest ==
    /\ pc = "main:serving"
    /\ \E cluster \in RequestClusters, cookie \in RequestCookies :
         \E d \in {dispatch(srv, cluster, cookie)} :
            last' = [op |-> "request", cluster |-> cluster, cookie |-> cookie,
                     status |-> d.status, proxy |-> d.proxy, auther |-> d.auther,
                     user |-> d.user]
    /\ UNCHANGED <<files, provider, httpClientCache, httpClientCacheSystemRoots,
                   nextClient, cfg, cfg0, pc, steps, auth, retErr, attempts, slept,
                   anySuccess, lastGood, threads, returned, jar, flags, srv,
                   k8sAuthServiceAccountBearerToken, issued, heap>>

\* the flags main reads, with what the files they name hold and what the
\* providers answer: a startup without service backends whose managed
\* clusters' providers answer
MainFlags ==
    [userAuth : {"oidc", "openshift", "disabled", "none"},
     k8sAuth : {"service-account", "bearer-token", "oidc", "openshift", "none"},
     k8sMode : {"in-cluster", "off-cluster", "none"},
     k8sAuthBearerToken : {"", "abc123"},
     baseScheme : {"https"},
     k8sInClusterCA : {"valid", "unreadable"},
     k8sInClusterBearerToken : {TRUE},
     serviceCAFile : {""},
     offCluster : {{}},
     localAuthOK : BOOLEAN,
     managedClusterConfigs :
        SeqsUpTo({m \in ManagedClusterConfigs : m.authOK}, MaxManaged)]

\* startups with every state of the CA bundles and every choice of service
\* backends
BackendFlags ==
    [userAuth : {"openshift", "disabled"},
     k8sAuth : {"bearer-token", "openshift"},
     k8sMode : {"in-cluster"},
     k8sAuthBearerToken : {"abc123"},
     baseScheme : {"https"},
     k8sInClusterCA : CABundles,
     k8sInClusterBearerToken : BOOLEAN,
     serviceCAFile : {""} \cup CABundles,
     offCluster : {{}},
     localAuthOK : {TRUE},
     managedClusterConfigs :
        SeqsUpTo({m \in ManagedClusterConfigs : m.authOK}, MaxManaged)]
    \cup
    [userAuth : {"openshift", "disabled"},
     k8sAuth : {"bearer-token", "openshift"},
     k8sMode : {"off-cluster"},
     k8sAuthBearerToken : {"abc123"},
     baseScheme : {"https"},
     k8sInClusterCA : {"unreadable"},
     k8sInClusterBearerToken : {FALSE},
     serviceCAFile : {""},
     offCluster : SUBSET OffClusterBackends,
     localAuthOK : {TRUE},
     managedClusterConfigs :
        SeqsUpTo({m \in ManagedClusterConfigs : m.authOK}, MaxManaged)]

\* startups with every outcome of the NewAuthenticator calls, over both base
\* address schemes
AutherFlags ==
    [userAuth : {"oidc", "openshift", "disabled"},
     k8sAuth : {"bearer-token", "openshift"},
     k8sMode : {"in-cluster", "off-cluster"},
     k8sAuthBearerToken : {"abc123"},
     baseScheme : {"http", "https"},
     k8sInClusterCA : {"valid"},
     k8sInClusterBearerToken : {TRUE},
     serviceCAFile : {""},
     offCluster : {{}},
     localAuthOK : BOOLEAN,
     managedClusterConfigs : SeqsUpTo(ManagedClusterConfigs, MaxManaged)]

\* main before its first step, its flags drawn from F
InitMainWith(F) ==
    /\ flags \in F
    /\ srv = NewServer
    /\ k8sAuthServiceAccountBearerToken = ""
    /\ issued = <<>>
    /\ heap = <<>>
    /\ pc = "main:managed"
    /\ cfg = Nil
    /\ cfg0 = Nil
    /\ files = [p \in Paths |-> NoFile]
    /\ provider = ProviderE1
    /\ httpClientCache = EmptyCache
    /\ httpClientCacheSystemRoots = EmptyCache
    /\ nextClient = 1
    /\ steps = 0
    /\ auth = Nil
    /\ retErr = NoErr
    /\ attempts = 0
    /\ slept = 0
    /\ anySuccess = FALSE
    /\ lastGood = NoGood
    /\ last = NoCall
    /\ threads = <<>>
    /\ returned = {}
    /\ jar = <<>>

InitMain == InitMainWith(MainFlags)
InitBackends == InitMainWith(BackendFlags)
InitAuthers == InitMainWith(AutherFlags)
MainNext == ConfigureManaged \/ K8sMode \/ UserAuth \/ K8sAuth \/ HandleRequest
SpecMain == InitMain /\ [][MainNext]_vars
SpecBackends == InitBackends /\ [][MainNext]_vars
SpecAuthers == InitAuthers /\ [][MainNext]_vars

-----------------------------------------------------------------------------
(* The cookies of an Authenticator that main configured *)

\* the Config main builds for a cluster: oidcClientConfig for the local one,
\* managedClusterOIDCClientConfig for a managed one
oidcClientConfig(f, cluster) ==
    [AuthSource |-> IF f.userAuth = "openshift" THEN AuthSourceOpenShift
                    ELSE AuthSourceTectonic,
     IssuerURL |-> URL("https", "api.example", <<>>),
     IssuerCA |-> "",
     RedirectURL |-> URL("https", "console.example", <<"/", "callback">>),
     ClientID |-> "console", ClientSecret |-> "secret", Scope |-> <<"user:full">>,
     K8sCA |-> "", SuccessURL |-> SuccessPage, ErrorURL |-> ErrorPage,
     RefererPath |-> ConsoleURL, CookiePath |-> "/api/",
     SecureCookies |-> secureCookies(f),
     ClusterName |-> cluster, CookieDomain |-> ""]

\* the digits of encoding/hex
hextable ==
    <<"0", "1", "2", "3", "4", "5", "6", "7", "8", "9", "a", "b", "c", "d", "e", "f">>

\* one digit for a byte below 16
RECURSIVE EncodeToString_short(_)
EncodeToString_short(src) ==
    IF src = <<>> THEN <<>>
    ELSE (IF Head(src) < 16 THEN <<hextable[Head(src) + 1]>>
          ELSE <<hextable[(Head(src) \div 16) + 1], hextable[(Head(src) % 16) + 1]>>)
            \o EncodeToString_short(Tail(src))

\* hex.EncodeToString: two digits for every byte, the high one first
RECURSIVE EncodeToString(_)
EncodeToString(src) ==
    IF src = <<>> THEN <<>>
    ELSE <<hextable[(Head(src) \div 16) + 1], hextable[(Head(src) % 16) + 1]>>
            \o EncodeToString(Tail(src))

\* values of the four bytes LoginFunc reads from rand.Reader
RandData == {<<0, 10, 255, 16>>, <<222, 173, 190, 239>>}

\* the state values LoginFunc may draw
LoginStates == {EncodeToString(d) : d \in RandData}

\* scopes the state cookie to a path of the cluster
LoginFunc_clusterPath(a, cs, fs, c, prov, randData) ==
    The({ [state |-> state,
           resp |-> [status |-> StatusSeeOther,
                     Location |-> [af.config.Endpoint.AuthURL EXCEPT
                                      !.query = {<<"state", state>>}],
                     cookies |-> << [Name |-> stateCookieName, Value |-> state,
                                     MaxAge |-> 0, HttpOnly |-> TRUE, Path |-> c.ClusterName,
                                     Secure |-> a.secureCookies, SameSite |-> "",
                                     Domain |-> a.cookieDomain] >>],
           cs |-> af.cs, af |-> af] :
          af \in {authFunc(a, cs, fs, c, prov)},
          state \in {EncodeToString(randData)} })

\* LoginFunc: the state cookie and the redirect to the provider
LoginFunc(a, cs, fs, c, prov, randData) ==
    The({ [state |-> state,
           resp |-> [status |-> StatusSeeOther,
                     Location |-> [af.config.Endpoint.AuthURL EXCEPT
                                      !.query = {<<"state", state>>}],
                     cookies |-> << [Name |-> stateCookieName, Value |-> state,
                                     MaxAge |-> 0, HttpOnly |-> TRUE, Path |-> "/",
                                     Secure |-> a.secureCookies, SameSite |-> "",
                                     Domain |-> a.cookieDomain] >>],
           cs |-> af.cs, af |-> af] :
          af \in {authFunc(a, cs, fs, c, prov)},
          state \in {EncodeToString(randData)} })

\* the browser requests the login handler
BrowserLoginFunc ==
    /\ pc = "serving"
    /\ \E randData \in RandData :
          \E h \in {LoginFunc(auth, CS, files, cfg, provider, randData)} :
             /\ SetCS(h.cs)
             /\ jar' = TakeCookies(jar, h.resp.cookies)
             /\ last' = [op |-> "LoginFunc", status |-> h.resp.status]
             /\ lastGood' = UpdateGood(lastGood, h.af.src)
    /\ UNCHANGED <<files, provider, cfg, cfg0, pc, steps, auth, retErr, attempts, slept,
                   anySuccess, threads, returned,
                   flags, srv, k8sAuthServiceAccountBearerToken, issued, heap>>

\* the startups whose Authenticators issue the cookies
CookieFlags ==
    [userAuth : {"openshift"},
     k8sAuth : {"openshift"},
     k8sMode : {"off-cluster"},
     k8sAuthBearerToken : {""},
     baseScheme : {"http", "https"},
     k8sInClusterCA : {"valid"},
     k8sInClusterBearerToken : {TRUE},
     serviceCAFile : {""},
     offCluster : {{}},
     localAuthOK : {TRUE},
     managedClusterConfigs :
        {<<>>, <<[Name |-> "east-1", caOK |-> TRUE, authOK |-> TRUE]>>}]

\* the clusters main builds an Authenticator for
AutherNames(f) ==
    {LocalClusterName} \cup
    {f.managedClusterConfigs[i].Name : i \in DOMAIN f.managedClusterConfigs}

\* one of main's Authenticators, serving
InitCookies ==
    \E f \in CookieFlags :
       \E cluster \in AutherNames(f) :
          \E s \in {x \in FirstPasses({oidcClientConfig(f, cluster)}) :
                        x.it.constructed /\ x.it.err = NoErr} :
            /\ flags = f
            /\ cfg = s.it.c
            /\ cfg0 = s.c
            /\ files = s.fs
            /\ provider = s.prov
            /\ httpClientCache = s.it.cs.nosys
            /\ httpClientCacheSystemRoots = s.it.cs.sys
            /\ nextClient = s.it.cs.next
            /\ pc = "serving"
            /\ steps = 0
            /\ auth = s.it.a
            /\ retErr = NoErr
            /\ attempts = 1
            /\ slept = 0
            /\ anySuccess = TRUE
            /\ lastGood = [endpoint |-> s.it.a.fallbackEndpoint,
                           lm |-> s.it.a.fallbackLoginMethod,
                           client |-> s.it.a.fallbackClient]
            /\ last = NoCall
            /\ threads = <<>>
            /\ returned = {}
            /\ jar = <<>>
            /\ srv = Nil
            /\ k8sAuthServiceAccountBearerToken = ""
            /\ issued = <<>>
            /\ heap = <<>>

CookiesNext ==
    \/ ProviderChange
    \/ BrowserLoginFunc
    \/ BrowserLogin
    \/ BrowserLogout
    \/ CallSetCSRFCookie
    \/ Done
SpecCookies == InitCookies /\ [][CookiesNext]_vars

-----------------------------------------------------------------------------
(* One browser and the Authenticators of several clusters: srv.Authers is   *)
(* main's registry, the handlers of a cluster are those of its entry, and   *)
(* the browser keeps one cookie jar for the console's origin.               *)

\* LoginFunc calls the browser makes in all
MaxLogins == 2

\* startups with a managed cluster, served over https
BrowserFlags ==
    {f \in CookieFlags : f.managedClusterConfigs # <<>> /\ f.baseScheme = "https"}

\* the Authenticator NewAuthenticator returns for a cluster when its first
\* discovery finds the provider up
Constructed(f, cluster) ==
    {x.it.a : x \in {y \in FirstPasses({oidcClientConfig(f, cluster)}) :
                        y.it.constructed /\ y.it.err = NoErr /\ y.prov = ProviderE1}}

BrowserRegistries == UNION {{[f |-> f, Authers |-> m] :
                               m \in [AutherNames(f) -> Constructed(f, LocalClusterName)
                                                          \cup Constructed(f, "east-1")]} :
                            f \in BrowserFlags}

BrowserStarts ==
    {x \in BrowserRegistries :
        \A n \in DOMAIN x.Authers : x.Authers[n] \in Constructed(x.f, n)}

InitBrowser ==
    \E x \in BrowserStarts :
        /\ flags = x.f
        /\ srv = [NewServer EXCEPT !.Authers = x.Authers]
        /\ cfg = oidcClientConfig(x.f, LocalClusterName)
        /\ cfg0 = oidcClientConfig(x.f, LocalClusterName)
        /\ files = [p \in Paths |-> NoFile]
        /\ provider = ProviderE1
        /\ httpClientCache = EmptyCache
        /\ httpClientCacheSystemRoots = EmptyCache
        /\ nextClient = 1
        /\ pc = "serving"
        /\ steps = 0
        /\ auth = x.Authers[LocalClusterName]
        /\ retErr = NoErr
        /\ attempts = 1
        /\ slept = 0
        /\ anySuccess = TRUE
        /\ lastGood = [endpoint |-> x.Authers[LocalClusterName].fallbackEndpoint,
                       lm |-> x.Authers[LocalClusterName].fallbackLoginMethod,
                       client |-> x.Authers[LocalClusterName].fallbackClient]
        /\ last = NoCall
        /\ threads = <<>>
        /\ returned = {}
        /\ jar = <<>>
        /\ k8sAuthServiceAccountBearerToken = ""
        /\ issued = <<>>
        /\ heap = <<>>

\* the browser requests the login handler of a cluster
ClusterLoginFunc ==
    /\ pc = "serving"
    /\ Len(issued) < MaxLogins
    /\ \E cluster \in DOMAIN srv.Authers, randData \in RandData :
          \E h \in {LoginFunc(srv.Authers[cluster], CS, files,
                               oidcClientConfig(flags, cluster), provider, randData)} :
             /\ SetCS(h.cs)
             /\ jar' = TakeCookies(jar, h.resp.cookies)
             /\ issued' = <<[cluster |-> cluster, state |-> h.state]>> \o issued
             /\ last' = [op |-> "LoginFunc", cluster |-> cluster, resp |-> h.resp,
                         endpoint |-> h.af.config.Endpoint]
    /\ UNCHANGED <<files, provider, cfg, cfg0, pc, steps, auth, retErr, attempts, slept,
                   anySuccess, lastGood, threads, returned,
                   flags, srv, k8sAuthServiceAccountBearerToken, heap>>

\* the provider's redirect arrives at the callback handler of a cluster, with
\* the cookies the browser holds
ClusterCallback ==
    /\ pc = "serving"
    /\ \E cluster \in DOMAIN srv.Authers, state \in LoginStates \cup {<<>>},
          ex \in ExchangeOutcomes :
          \E r \in {[error |-> "", code |-> "c1", state |-> state,
                      cookies |-> SentCookies(jar)]} :
             \E h \in {CallbackFunc(srv.Authers[cluster], CS, files,
                                     oidcClientConfig(flags, cluster), provider, r, ex)} :
                /\ h.exchanged \/ ex = ExchangeFails
                /\ SetCS(h.cs)
                /\ jar' = TakeCookies(jar, h.resp.cookies)
                /\ last' = [op |-> "Callback", cluster |-> cluster, req |-> r, ex |-> ex,
                            resp |-> h.resp, exchanged |-> h.exchanged, fn |-> h.fn]
    /\ UNCHANGED <<files, provider, cfg, cfg0, pc, steps, auth, retErr, attempts, slept,
                   anySuccess, lastGood, threads, returned,
                   flags, srv, k8sAuthServiceAccountBearerToken, issued, heap>>

\* the browser requests the logout handler of a cluster
ClusterLogout ==
    /\ pc = "serving"
    /\ \E cluster \in DOMAIN srv.Authers :
          \E h \in {LogoutFunc(srv.Authers[cluster], CS, files,
                                oidcClientConfig(flags, cluster), provider)} :
             /\ SetCS(h.cs)
             /\ jar' = TakeCookies(jar, h.resp.cookies)
             /\ last' = [op |-> "Logout", cluster |-> cluster, resp |-> h.resp,
                         discovered |-> h.af.src.discovered, prov |-> provider]
    /\ UNCHANGED <<files, provider, cfg, cfg0, pc, steps, auth, retErr, attempts, slept,
                   anySuccess, lastGood, threads, returned,
                   flags, srv, k8sAuthServiceAccountBearerToken, issued, heap>>

\* a request for a cluster is authenticated by that cluster's Authenticator;
\* its cookies are the browser's, or made up
ClusterAuthenticate ==
    /\ pc = "serving"
    /\ \E cluster \in DOMAIN srv.Authers, cookies \in {SentCookies(jar)} \cup SessionJars :
          \E r \in {[cluster |-> cluster, cookies |-> cookies]} :
             \E u \in {userFunc(srv.Authers[cluster], r)} :
                last' = [op |-> "Authenticate", cluster |-> cluster, req |-> r,
                         user |-> u.user, err |-> u.err,
                         fromJar |-> cookies = SentCookies(jar),
                         afterLogin |->
                            IF last.op = "Callback" /\ Len(last.fn) = 1
                            THEN [nil |-> FALSE, cluster |-> last.cluster,
                                  token |-> last.ex.AccessToken]
                            ELSE Nil]
    /\ UNCHANGED <<files, provider, httpClientCache, httpClientCacheSystemRoots,
                   nextClient, cfg, cfg0, pc, steps, auth, retErr, attempts, slept,
                   anySuccess, lastGood, threads, returned, jar,
                   flags, srv, k8sAuthServiceAccountBearerToken, issued, heap>>

BrowserNext ==
    \/ ProviderChange
    \/ ClusterLoginFunc
    \/ ClusterCallback
    \/ ClusterLogout
    \/ ClusterAuthenticate
SpecBrowser == InitBrowser /\ [][BrowserNext]_vars

-----------------------------------------------------------------------------
(* newHTTPClient step by step, as request goroutines run it side by side:   *)
(* ioutil.ReadFile, sync.Map.Load, the build of the client, sync.Map.Store. *)

Idle(n) == [pc |-> "idle", calls |-> n, path |-> "", sys |-> FALSE, data |-> <<>>,
            client |-> Nil]

RECURSIVE CallsMade(_)
CallsMade(n) == IF n = 0 THEN 0 ELSE threads[n].calls + CallsMade(n - 1)

Cache(includeSystemRoots) ==
    IF includeSystemRoots THEN httpClientCacheSystemRoots ELSE httpClientCache

\* the call returns client: the goroutine is idle again
Return(t, client) ==
    /\ threads' = [threads EXCEPT ![t] = Idle(threads[t].calls)]
    /\ returned' = returned \cup
                     {[sys |-> threads[t].sys, path |-> threads[t].path,
                       data |-> threads[t].data, client |-> client]}

\* auth.go:124-130: the default client for no path, else the file is read
ReadFile(t) ==
    /\ threads[t].pc = "idle"
    /\ CallsMade(Len(threads)) < MaxCalls
    /\ \E issuerCA \in Paths \cup {""}, includeSystemRoots \in BOOLEAN :
          threads' = [threads EXCEPT ![t] =
             IF issuerCA = "" \/ ~files[issuerCA].exists
             THEN Idle(@.calls + 1)
             ELSE [pc |-> "load", calls |-> @.calls + 1, path |-> issuerCA,
                   sys |-> includeSystemRoots, data |-> files[issuerCA].data,
                   client |-> Nil]]
    /\ UNCHANGED <<files, provider, httpClientCache, httpClientCacheSystemRoots,
                   nextClient, cfg, cfg0, pc, steps, auth, retErr, attempts, slept,
                   anySuccess, lastGood, last, returned, jar,
                   flags, srv, k8sAuthServiceAccountBearerToken, issued, heap>>

\* auth.go:132-161: Load; on a miss the pool and the client are built
Load(t) ==
    /\ threads[t].pc = "load"
    /\ LET th == threads[t]
           key == caKey(th.path, th.data)
       IN IF key \in DOMAIN Cache(th.sys)
          THEN /\ Return(t, Cache(th.sys)[key])
               /\ UNCHANGED nextClient
          ELSE IF ~AppendCertsFromPEM(th.data)
          THEN /\ threads' = [threads EXCEPT ![t] = Idle(th.calls)]
               /\ UNCHANGED <<nextClient, returned,
                              flags, srv, k8sAuthServiceAccountBearerToken, issued, heap>>
          ELSE /\ threads' = [threads EXCEPT ![t].pc = "store",
                                             ![t].client =
                                                [id |-> nextClient, roots |-> th.data,
                                                 sys |-> th.sys]]
               /\ nextClient' = nextClient + 1
               /\ UNCHANGED returned
    /\ UNCHANGED <<files, provider, httpClientCache, httpClientCacheSystemRoots,
                   cfg, cfg0, pc, steps, auth, retErr, attempts, slept,
                   anySuccess, lastGood, last, jar,
                   flags, srv, k8sAuthServiceAccountBearerToken, issued, heap>>

\* auth.go:163-169: Store, return httpClient
Store(t) ==
    /\ threads[t].pc = "store"
    /\ LET th == threads[t]
           key == caKey(th.path, th.data)
       IN /\ IF th.sys
             THEN /\ httpClientCacheSystemRoots' =
                        (key :> th.client) @@ httpClientCacheSystemRoots
                  /\ UNCHANGED httpClientCache
             ELSE /\ httpClientCache' = (key :> th.client) @@ httpClientCache
                  /\ UNCHANGED httpClientCacheSystemRoots
          /\ Return(t, th.client)
    /\ UNCHANGED <<files, provider, nextClient, cfg, cfg0, pc, steps, auth, retErr,
                   attempts, slept, anySuccess, lastGood, last, jar,
                   flags, srv, k8sAuthServiceAccountBearerToken, issued, heap>>

\* serving states in which the Config names both CA files
CacheStarts ==
    {x \in ClosureStarts : x.c.IssuerCA # "" /\ x.c.K8sCA # ""
                             /\ x.c.AuthSource = AuthSourceOpenShift
                             /\ x.prov = ProviderE1}

\* n request goroutines about to call newHTTPClient
InitCache(n) ==
    \E s \in CacheStarts :
        /\ cfg = s.it.c
        /\ cfg0 = s.c
        /\ files = s.fs
        /\ provider = s.prov
        /\ httpClientCache = s.it.cs.nosys
        /\ httpClientCacheSystemRoots = s.it.cs.sys
        /\ nextClient = s.it.cs.next
        /\ pc = "serving"
        /\ steps = 0
        /\ auth = s.it.a
        /\ retErr = NoErr
        /\ attempts = 1
        /\ slept = 0
        /\ anySuccess = TRUE
        /\ lastGood = [endpoint |-> s.it.a.fallbackEndpoint,
                       lm |-> s.it.a.fallbackLoginMethod,
                       client |-> s.it.a.fallbackClient]
        /\ last = NoCall
        /\ threads = [t \in 1..n |-> Idle(0)]
        /\ returned = {}
        /\ jar = <<>>
        /\ flags = Nil
        /\ srv = Nil
        /\ k8sAuthServiceAccountBearerToken = ""
        /\ issued = <<>>
        /\ heap = <<>>

CacheNext ==
    \/ WriteFile
    \/ \E t \in DOMAIN threads : ReadFile(t)
    \/ \E t \in DOMAIN threads : Load(t)
    \/ \E t \in DOMAIN threads : Store(t)

\* one goroutine: the calls follow one another
InitSequential == InitCache(1)
SpecSequential == InitSequential /\ [][CacheNext]_vars

\* two goroutines: the calls interleave
InitConcurrent == InitCache(2)
SpecConcurrent == InitConcurrent /\ [][CacheNext]_vars

-----------------------------------------------------------------------------
(* authFunc step by step, as request goroutines run it side by side: the    *)
(* allocation of baseOAuth2Config and the two clients, the GET of the       *)
(* metadata, the HEAD of the issuer, the assignment of the endpoint and the *)
(* return.  A result is the address of the call's oauth2.Config and a       *)
(* login method.                                                            *)

\* one struct for all the calls
newConfig_shared(h) == 1

\* auth.go:246: baseOAuth2Config is a local of the call, a new struct each time
newConfig(h) == Len(h) + 1

\* auth.go:246-252
baseOAuth2Config(a, c) ==
    [ClientID |-> c.ClientID, ClientSecret |-> c.ClientSecret,
     RedirectURL |-> c.RedirectURL, Scopes |-> c.Scope,
     Endpoint |-> a.fallbackEndpoint]

AuthIdle(n) == [pc |-> "idle", calls |-> n, config |-> 0, k |-> Nil, cl |-> Nil,
                doc |-> Nil]

\* the call returns (config, lm): the goroutine is idle again
AuthReturn(t, h, lm, discovered) ==
    /\ threads' = [threads EXCEPT ![t] = AuthIdle(threads[t].calls)]
    /\ heap' = h
    /\ returned' = returned \cup
                     {[t |-> t, call |-> threads[t].calls, config |-> threads[t].config,
                       struct |-> h[threads[t].config], lm |-> lm,
                       doc |-> threads[t].doc, discovered |-> discovered]}

\* auth.go:246-254 and 195-201: the struct is built, the clients are resolved
AuthFuncBegin(t) ==
    /\ threads[t].pc = "idle"
    /\ CallsMade(Len(threads)) < MaxCalls
    /\ \E p \in {newConfig(heap)} :
          \E k \in {newHTTPClient(CS, files, cfg.K8sCA, TRUE)} :
             \E cl \in {clientFunc(auth, k.cs, files, cfg)} :
                /\ heap' = IF p \in DOMAIN heap
                           THEN [heap EXCEPT ![p] = baseOAuth2Config(auth, cfg)]
                           ELSE Append(heap, baseOAuth2Config(auth, cfg))
                /\ SetCS(IF k.err # NoErr THEN k.cs ELSE cl.cs)
                /\ threads' = [threads EXCEPT ![t] =
                      [pc |-> IF auth.userFunc = "getOpenShiftUser" /\ k.err = NoErr
                              THEN "get" ELSE "assign",
                       calls |-> @.calls + 1, config |-> p, k |-> k, cl |-> cl,
                       doc |-> Nil]]
    /\ UNCHANGED <<files, provider, cfg, cfg0, pc, steps, auth, retErr, attempts, slept,
                   anySuccess, lastGood, last, returned, jar,
                   flags, srv, k8sAuthServiceAccountBearerToken, issued>>

\* auth_openshift.go:56-93: the GET of the metadata document
AuthFuncGet(t) ==
    /\ threads[t].pc = "get"
    /\ threads' = [threads EXCEPT ![t].pc = "head", ![t].doc = provider]
    /\ UNCHANGED <<files, provider, httpClientCache, httpClientCacheSystemRoots,
                   nextClient, cfg, cfg0, pc, steps, auth, retErr, attempts, slept,
                   anySuccess, lastGood, last, returned, jar,
                   flags, srv, k8sAuthServiceAccountBearerToken, issued, heap>>

\* auth_openshift.go:96-124: the HEAD of the issuer finds the provider as it
\* is by now
AuthFuncHead(t) ==
    /\ threads[t].pc = "head"
    /\ threads' = [threads EXCEPT ![t].pc = "assign",
                                  ![t].doc = [@ EXCEPT !.headErr = provider.headErr,
                                                       !.headStatus = provider.headStatus]]
    /\ UNCHANGED <<files, provider, httpClientCache, httpClientCacheSystemRoots,
                   nextClient, cfg, cfg0, pc, steps, auth, retErr, attempts, slept,
                   anySuccess, lastGood, last, returned, jar,
                   flags, srv, k8sAuthServiceAccountBearerToken, issued, heap>>

\* what authSourceFunc returns to the call of goroutine t
AuthSourceResult(t) ==
    IF auth.userFunc # "getOpenShiftUser"
    THEN authSourceFunc(auth, CS, files, cfg, provider)
    ELSE IF threads[t].k.err # NoErr
    THEN [endpoint |-> NoEndpoint, lm |-> Nil, err |-> threads[t].k.err]
    ELSE discover(threads[t].k, threads[t].cl, cfg, threads[t].doc)

\* auth.go:254-261: the fallback pair on an error, else the endpoint is
\* assigned to the call's struct
AuthFuncAssign(t) ==
    /\ threads[t].pc = "assign"
    /\ \E r \in {AuthSourceResult(t)} :
          IF r.err # NoErr
          THEN AuthReturn(t, heap, auth.fallbackLoginMethod, FALSE)
          ELSE AuthReturn(t, [heap EXCEPT ![threads[t].config].Endpoint = r.endpoint],
                          r.lm, TRUE)
    /\ UNCHANGED <<files, provider, httpClientCache, httpClientCacheSystemRoots,
                   nextClient, cfg, cfg0, pc, steps, auth, retErr, attempts, slept,
                   anySuccess, lastGood, last, jar,
                   flags, srv, k8sAuthServiceAccountBearerToken, issued>>

\* serving states of Authenticators whose Config names no CA file
AuthFuncStarts ==
    {x \in ClosureStarts : x.c.IssuerCA = "" /\ x.c.K8sCA = ""}

\* two request goroutines about to call a.authFunc()
InitAuthFuncs ==
    \E s \in AuthFuncStarts :
        /\ cfg = s.it.c
        /\ cfg0 = s.c
        /\ files = s.fs
        /\ provider = s.prov
        /\ httpClientCache = s.it.cs.nosys
        /\ httpClientCacheSystemRoots = s.it.cs.sys
        /\ nextClient = s.it.cs.next
        /\ pc = "serving"
        /\ steps = 0
        /\ auth = s.it.a
        /\ retErr = NoErr
        /\ attempts = 1
        /\ slept = 0
        /\ anySuccess = TRUE
        /\ lastGood = [endpoint |-> s.it.a.fallbackEndpoint,
                       lm |-> s.it.a.fallbackLoginMethod,
                       client |-> s.it.a.fallbackClient]
        /\ last = NoCall
        /\ threads = [t \in 1..2 |-> AuthIdle(0)]
        /\ returned = {}
        /\ jar = <<>>
        /\ flags = Nil
        /\ srv = Nil
        /\ k8sAuthServiceAccountBearerToken = ""
        /\ issued = <<>>
        /\ heap = <<>>

AuthFuncsNext ==
    \/ ProviderChange
    \/ \E t \in DOMAIN threads : AuthFuncBegin(t)
    \/ \E t \in DOMAIN threads : AuthFuncGet(t)
    \/ \E t \in DOMAIN threads : AuthFuncHead(t)
    \/ \E t \in DOMAIN threads : AuthFuncAssign(t)
SpecAuthFuncs == InitAuthFuncs /\ [][AuthFuncsNext]_vars

-----------------------------------------------------------------------------
(* Claims about NewAuthenticator's retry loop *)

\* the loop gave up: its last pass failed in discovery, not in construction
GaveUp ==
    /\ pc = "returned"
    /\ auth = Nil
    /\ newUnstartedAuthenticator(CS, files, cfg).err = NoErr

\* C1 as stated: NewAuthenticator never makes more than 30 discovery attempts
\* (no 31st attempt is made).
C1_NoThirtyFirstAttempt == attempts <= 30

\* C1, amended: NewAuthenticator makes at most maxSteps + 1 = 31 discovery
\* attempts; it gives up only after the 31st failed attempt, returning that
\* attempt's error, having slept the 10s backoff once between consecutive
\* attempts (30 sleeps, 300s in all).
C1_ThirtyOneAttempts ==
    /\ attempts <= maxSteps + 1
    /\ pc = "loop" => slept = backoff * attempts
    /\ pc = "sleep" => attempts >= 1 /\ slept = backoff * (attempts - 1)
    /\ GaveUp =>
          /\ attempts = maxSteps + 1
          /\ slept = backoff * maxSteps
          /\ retErr # NoErr
          /\ retErr = loopIteration(CS, files, cfg, provider).err

C1_Witness == GaveUp /\ attempts = 31 /\ slept = 300

\* C2: if every call made by the loop returns, NewAuthenticator returns; it
\* returns (Authenticator, nil) exactly when a pass of the loop constructed the
\* Authenticator and discovered the provider, and otherwise (nil, err) with err
\* the error of the last pass.
C2_Outcome ==
    pc = "returned" =>
        /\ (auth # Nil /\ retErr = NoErr) <=> anySuccess
        /\ ~anySuccess =>
              /\ auth = Nil
              /\ retErr # NoErr
              /\ retErr = loopIteration(CS, files, cfg, provider).err

\* every pass of the loop body returns, and so does every time.Sleep
EveryCallReturns == []<>(pc # "loop") /\ []<>(pc # "sleep")

C2_TerminatesWithOutcome ==
    /\ EveryCallReturns => <>(pc = "returned")
    /\ []C2_Outcome

C2_Witness == pc = "returned" /\ auth # Nil /\ retErr = NoErr /\ attempts = 3

-----------------------------------------------------------------------------
(* Claims about the closures authFunc and clientFunc *)

OpenShiftSource == auth # Nil /\ auth.userFunc = "getOpenShiftUser"

\* C3: for an OpenShift-source Authenticator every authFunc call returns the
\* endpoint and login method of the latest successful discovery: the one made
\* inside the call if it succeeded, else the last one that succeeded before.
C3_ReturnsLatestDiscovery ==
    (pc = "serving" /\ OpenShiftSource /\ last.op = "authFunc") =>
        /\ last.endpoint = lastGood.endpoint
        /\ last.lm = lastGood.lm

\* C28: with the generic OIDC auth source, once NewAuthenticator has
\* returned discovery is never performed again: every authFunc call returns
\* the endpoint and the login method of the successful construction attempt,
\* whatever the provider's state at the call, and resolves no client.
C28_OIDCDiscoveredOnce ==
    /\ []((pc = "serving" /\ ~OpenShiftSource /\ last.op = "authFunc") =>
            /\ last.endpoint = auth.fallbackEndpoint
            /\ last.lm = auth.fallbackLoginMethod
            /\ ~last.discovered)
    /\ [][(pc = "serving" /\ ~OpenShiftSource /\ last'.op = "authFunc") =>
            UNCHANGED <<httpClientCache, httpClientCacheSystemRoots, nextClient,
                        auth, lastGood>>]_vars

C28_Witness ==
    /\ pc = "serving" /\ ~OpenShiftSource /\ last.op = "authFunc"
    /\ provider = ProviderE2
    /\ last.endpoint = [AuthURL |-> ProviderE1.authorization_endpoint,
                        TokenURL |-> ProviderE1.token_endpoint]

\* C29: clientFunc follows a rotation of the issuer CA file without a
\* restart.  A call that reads valid content returns the client the cache
\* holds for that content, built from it and distinct from the client of any
\* other content; a cached client is never replaced, so when the file returns
\* to an earlier content the call returns the instance first cached for it.
C29_HotSwapOnRotation ==
    /\ [](/\ last # NoCall
          /\ last.op = "clientFunc"
          /\ last.read.exists
          /\ AppendCertsFromPEM(last.read.data)
          => /\ last.read.data \in DOMAIN httpClientCacheSystemRoots
             /\ last.client = httpClientCacheSystemRoots[last.read.data]
             /\ last.client.roots = last.read.data
             /\ \A k \in DOMAIN httpClientCacheSystemRoots \ {last.read.data} :
                   httpClientCacheSystemRoots[k] # last.client)
    /\ [][\A k \in DOMAIN httpClientCacheSystemRoots :
             /\ k \in DOMAIN httpClientCacheSystemRoots'
             /\ httpClientCacheSystemRoots'[k] = httpClientCacheSystemRoots[k]]_vars

\* the file went from certA to certB and back: the call reading certA again
\* returns the older of the two cached clients, which is the startup client
C29_Witness ==
    /\ last # NoCall
    /\ last.op = "clientFunc"
    /\ last.read = File(<<"certA">>)
    /\ <<"certB">> \in DOMAIN httpClientCacheSystemRoots
    /\ last.client.id < httpClientCacheSystemRoots[<<"certB">>].id
    /\ last.client = auth.fallbackClient
    /\ lastGood.client = last.client

\* the issuer CA file held CA data when the call read it
ReadValid == last.read.exists /\ AppendCertsFromPEM(last.read.data)
\* the issuer CA file was there when the call read it, without CA data
ReadInvalid == last.read.exists /\ ~AppendCertsFromPEM(last.read.data)

\* C4: after construction clientFunc never fails and never returns nil: it
\* returns the client resolved from the current CA file content when the file
\* is readable and holds CA data, and the client captured at construction
\* otherwise.
C4_ClientFuncNeverFails ==
    (pc = "serving" /\ last.op = "clientFunc") =>
        /\ last.client # Nil
        /\ IF ReadValid
           THEN /\ last.client.roots = last.read.data
                /\ last.client.sys
                /\ last.client = httpClientCacheSystemRoots[last.read.data]
           ELSE last.client = auth.fallbackClient

C4_Witness ==
    /\ pc = "serving" /\ last.op = "clientFunc"
    /\ cfg.IssuerCA # "" /\ ~last.read.exists
    /\ last.client = auth.fallbackClient
    /\ last.client # DefaultClient

\* C5 as stated: with the issuer CA file rotated to invalid content, clientFunc
\* returns the client of the most recent valid content it resolved.
C5_FallsBackToLastResolved ==
    (pc = "serving" /\ last.op = "clientFunc" /\ ReadInvalid) =>
        last.client = lastGood.client

\* C5, amended: with the issuer CA file rotated to invalid content, clientFunc
\* returns the client captured at construction time, whatever valid contents
\* it resolved since (after A at construction, then B, then invalid: A's client).
C5_FallsBackToConstructionClient ==
    (pc = "serving" /\ last.op = "clientFunc" /\ ReadInvalid) =>
        /\ last.client = auth.fallbackClient
        /\ last.client.roots \in ValidContents

C5_Witness ==
    /\ pc = "serving" /\ last.op = "clientFunc" /\ ReadInvalid
    /\ last.client = auth.fallbackClient
    /\ lastGood.client # auth.fallbackClient

-----------------------------------------------------------------------------
(* Claims about the handlers *)

\* the session cookie of the request's cluster, "" when the request has none
SessionValue(r) ==
    IF GetCookieName(r.cluster) \in DOMAIN r.cookies
    THEN r.cookies[GetCookieName(r.cluster)]
    ELSE ""

C6_ResultFromRequestAlone ==
    (pc = "serving" /\ OpenShiftSource /\ last.op = "Authenticate") =>
        IF SessionValue(last.req) # ""
        THEN /\ last.err = NoErr
             /\ last.user = [nil |-> FALSE, ID |-> "", Username |-> "",
                             Token |-> SessionValue(last.req)]
        ELSE last.err # NoErr /\ last.user = Nil

C6_NoDiscovery ==
    (last.op # "Authenticate" /\ last'.op = "Authenticate") =>
        UNCHANGED <<files, provider, httpClientCache, httpClientCacheSystemRoots,
                    nextClient, cfg, auth, lastGood,
                    flags, srv, k8sAuthServiceAccountBearerToken, issued, heap>>

\* C6: for the OpenShift variant the result of Authenticate is decided by the
\* request alone (context cluster and session cookie), the same in every
\* provider, discovery and CA state, and Authenticate runs no discovery, no
\* authFunc and no clientFunc.
C6_SessionsSurviveOutages == []C6_ResultFromRequestAlone /\ [][C6_NoDiscovery]_vars

C6_Witness ==
    /\ pc = "serving" /\ OpenShiftSource /\ last.op = "Authenticate"
    /\ last.user # Nil
    /\ provider = ProviderDown
    /\ cfg.IssuerCA # "" /\ IssuerCAFile = NoFile

HasStateCookie(r) == stateCookieName \in DOMAIN r.cookies
StateMismatch(r) == HasStateCookie(r) /\ r.state # r.cookies[stateCookieName]

\* a 303 to the error URL with error=category and error_type=auth
IsAuthErrorRedirect(w, category) ==
    /\ w.status = 303
    /\ w.Location.scheme = auth.errorURL.scheme
    /\ w.Location.host = auth.errorURL.host
    /\ w.Location.path = auth.errorURL.path
    /\ <<"error", category>> \in w.Location.query
    /\ <<"error_type", "auth">> \in w.Location.query
    /\ \A kv \in w.Location.query : kv[1] = "error" => kv[2] = category

\* C9 as stated: every request whose state parameter differs from the state
\* cookie value is redirected with error=invalid_state, and no token exchange
\* is attempted.
C9_MismatchIsInvalidState ==
    (last.op = "Callback" /\ StateMismatch(last.req)) =>
        /\ IsAuthErrorRedirect(last.resp, "invalid_state")
        /\ ~last.exchanged

\* C9, amended: every request that carries a state cookie and a non-empty code
\* and whose state parameter differs from the cookie value is redirected with
\* error=invalid_state; and no token exchange is attempted for any request
\* whose state parameter differs from the cookie value or that has no state
\* cookie.
C9_MismatchWithCodeIsInvalidState ==
    last.op = "Callback" =>
        /\ (StateMismatch(last.req) /\ last.req.code # "") =>
                IsAuthErrorRedirect(last.resp, "invalid_state")
        /\ (StateMismatch(last.req) \/ ~HasStateCookie(last.req)) =>
                (~last.exchanged /\ ~last.loggedIn /\ last.fn = <<>>)

C9_Witness ==
    /\ last.op = "Callback"
    /\ StateMismatch(last.req) /\ last.req.code # ""
    /\ IsAuthErrorRedirect(last.resp, "invalid_state")

\* login fails: no access token (OpenShift), no ID token (OIDC)
LoginFails(ex) ==
    IF OpenShiftSource THEN ex.AccessToken = "" ELSE ex.IDToken = ""

\* the class of a callback request by the precedence C10 states
CallbackClass(r, ex) ==
    IF ~HasStateCookie(r) THEN "missing_state"
    ELSE IF r.error = "" /\ r.code = "" THEN "plain"
    ELSE IF r.code = "" THEN "missing_code"
    ELSE IF StateMismatch(r) THEN "invalid_state"
    ELSE IF ~ex.ok THEN "invalid_code"
    ELSE IF LoginFails(ex) THEN "internal_error"
    ELSE "success"

PassedStateCheck(r) ==
    /\ HasStateCookie(r)
    /\ r.code # ""
    /\ r.state = r.cookies[stateCookieName]

\* C11: the callback handler invokes the continuation exactly once, with the
\* configured success URL, if and only if the state check, the token exchange
\* and the login method's login succeeded, in that order; on every failure
\* path the continuation is not invoked and no session cookie is set.
C11_ContinuationOnlyOnSuccess ==
    last.op = "Callback" =>
        /\ last.exchanged <=> PassedStateCheck(last.req)
        /\ last.loggedIn <=> (last.exchanged /\ last.ex.ok)
        /\ IF last.loggedIn /\ ~LoginFails(last.ex)
           THEN /\ Len(last.fn) = 1
                /\ last.fn[1].successURL = auth.successURL
                /\ last.fn[1].loginInfo # Nil
                /\ Len(last.resp.cookies) = 1
           ELSE /\ last.fn = <<>>
                /\ last.resp.cookies = <<>>

C11_Witness ==
    /\ last.op = "Callback" /\ OpenShiftSource
    /\ Len(last.fn) = 1
    /\ last.fn[1].successURL = SuccessPage
    /\ last.resp.cookies[1].Value = "T1"
    /\ last.req.error # ""

-----------------------------------------------------------------------------
(* Claims about origin and CSRF verification *)

\* the source VerifySourceOrigin looked at
CheckedSource == getSourceOrigin(last.req)

\* C12 as stated: a source with a non-empty path is accepted only if that path
\* is a prefix of the configured referer URL's path.
C12_CandidateIsPrefixOfReferer ==
    (last.op = "VerifySourceOrigin" /\ last.err = NoErr
       /\ CheckedSource.path # <<>>) =>
        \E n \in 0..Len(auth.refererURL.path) :
            SubSeq(auth.refererURL.path, 1, n) = CheckedSource.path

\* C12, amended: a source with a non-empty path is accepted only if the
\* configured referer URL's path is a prefix of that path; a source with an
\* empty path is accepted on scheme, hostname and port alone.
C12_RefererIsPrefixOfCandidate ==
    last.op = "VerifySourceOrigin" =>
        LET u == CheckedSource
            sameOrigin == /\ u # EmptyURL /\ ~u.bad
                          /\ u.scheme = auth.refererURL.scheme
                          /\ Hostname(u) = Hostname(auth.refererURL)
                          /\ Port(u) = Port(auth.refererURL)
        IN /\ (last.err = NoErr /\ u.path # <<>>) =>
                \E n \in 0..Len(u.path) :
                    SubSeq(u.path, 1, n) = auth.refererURL.path
           /\ (sameOrigin /\ u.path = <<>>) => last.err = NoErr
           /\ (sameOrigin /\ u.path # <<>>) =>
                (last.err = NoErr <=>
                    \E n \in 0..Len(u.path) :
                        SubSeq(u.path, 1, n) = auth.refererURL.path)

C12_Witness ==
    /\ last.op = "VerifySourceOrigin" /\ last.err = NoErr
    /\ CheckedSource.path = <<"/", "console", "/", "page">>
    /\ auth.refererURL.path = <<"/", "console", "/">>

\* C13: VerifySourceOrigin looks at the Origin header when it is non-empty and
\* at the Referer header otherwise, fails when both are empty, and returns nil
\* only when scheme, hostname and port of the source equal those of the
\* configured referer URL; a mismatching Origin is rejected even when the
\* Referer header matches.
C13_OriginBeforeReferer ==
    last.op = "VerifySourceOrigin" =>
        LET r == last.req
            u == IF r.Origin # EmptyURL THEN r.Origin ELSE r.Referer
        IN /\ last.err = VerifySourceOrigin(auth, [Origin |-> u, Referer |-> EmptyURL])
           /\ (r.Origin = EmptyURL /\ r.Referer = EmptyURL) => last.err # NoErr
           /\ last.err = NoErr =>
                /\ u.scheme = auth.refererURL.scheme
                /\ Hostname(u) = Hostname(auth.refererURL)
                /\ Port(u) = Port(auth.refererURL)
           /\ (auth.refererURL.host = "console.example"
                 /\ auth.refererURL.scheme = "https") =>
                /\ r.Origin = URL("https", "evil.example", <<>>) => last.err # NoErr
                /\ r.Origin = URL("https", "console.example", <<>>) => last.err = NoErr

C13_Witness ==
    /\ last.op = "VerifySourceOrigin" /\ last.err # NoErr
    /\ last.req.Origin = URL("https", "evil.example", <<>>)
    /\ last.req.Referer = URL("https", "console.example", <<"/">>)
    /\ auth.refererURL = ConsoleURL

\* C14: VerifyCSRFToken returns nil if and only if the csrf-token cookie is
\* present and the X-CSRFToken header (empty when absent) equals the cookie
\* value byte for byte; a missing cookie, another length or one other byte is
\* an error.
C14_NilIffHeaderEqualsCookie ==
    last.op = "VerifyCSRFToken" =>
        (last.err = NoErr <=>
            /\ CSRFCookieName \in DOMAIN last.req.cookies
            /\ last.req.header = last.req.cookies[CSRFCookieName])

C14_Witness ==
    /\ last.op = "VerifyCSRFToken" /\ last.err # NoErr
    /\ last.req.header = <<"a", "a">>
    /\ CSRFCookieName \in DOMAIN last.req.cookies
    /\ last.req.cookies[CSRFCookieName] = <<"a", "b">>

\* the request sends back a cookie SetCSRFCookie issued and echoes its value
\* in the header
EchoesIssuedCookie ==
    /\ last.op = "VerifyCSRFToken"
    /\ \E ck \in Held(jar, CSRFCookieName) :
          /\ last.req.cookies = (CSRFCookieName :> ck.Value)
          /\ last.req.header = ck.Value

\* C15: the cookie SetCSRFCookie issues, for any path, is not HttpOnly, is
\* SameSite=Lax and has a value of 64 characters; a later request that sends
\* it back with an X-CSRFToken header of the same value passes
\* VerifyCSRFToken.
C15_CSRFRoundTrip ==
    /\ \A ck \in Held(jar, CSRFCookieName) :
          ~ck.HttpOnly /\ ck.SameSite = "Lax" /\ Len(ck.Value) = 64
    /\ EchoesIssuedCookie => last.err = NoErr

C15_Witness ==
    /\ EchoesIssuedCookie
    /\ last.err = NoErr
    /\ Cardinality(Held(jar, CSRFCookieName)) = 2
    /\ \E ck \in Held(jar, CSRFCookieName) : ck.Value # last.req.header

-----------------------------------------------------------------------------
(* Claims about the browser session *)

\* the session cookies of the Authenticator's cluster that the browser holds
SessionCookies == Held(jar, GetCookieName(cfg.ClusterName))

\* C16: for the OpenShift variant, Authenticate right after LogoutFunc on the
\* same cookie jar and cluster fails with an authentication error, also when
\* a login succeeded before: logout overwrites the cookie login set (same
\* name, path and domain) with an empty value.
C16_LogoutEndsSession ==
    /\ Cardinality(SessionCookies) <= 1
    /\ last.op = "Logout" =>
          /\ last.status = 204
          /\ \E ck \in SessionCookies : ck.Value = ""
    /\ (last.op = "Authenticate" /\ last.afterLogout
          /\ last.req.cluster = cfg.ClusterName) =>
          /\ last.err # NoErr
          /\ last.user = Nil

C16_Witness ==
    /\ last.op = "Authenticate" /\ last.afterLoginLogout
    /\ last.req.cluster = cfg.ClusterName
    /\ last.err # NoErr
    /\ provider = ProviderDown

-----------------------------------------------------------------------------
(* Claims about metadata discovery *)

\* the path without its trailing slash, if it has one
NoTrailingSlash(path) ==
    IF path # <<>> /\ path[Len(path)] = "/" THEN SubSeq(path, 1, Len(path) - 1)
    ELSE path

\* C17: on successful discovery newOpenShiftAuth returns the endpoint
\* {AuthURL = authorization_endpoint, TokenURL = token_endpoint} and the
\* special URLs RequestToken = token_endpoint joined with "/request" and
\* KubeAdminLogout = issuer joined with "/logout", with exactly one joining
\* slash; for issuer https://oauth.example and token endpoint
\* https://oauth.example/token these are https://oauth.example/token/request
\* and https://oauth.example/logout.
C17_EndpointAndSpecialURLs ==
    (last.op = "newOpenShiftAuth" /\ last.err = NoErr) =>
        LET doc == last.doc
            sp == last.lm.specialURLs
        IN /\ last.endpoint = [AuthURL |-> doc.authorization_endpoint,
                               TokenURL |-> doc.token_endpoint]
           /\ sp.RequestToken =
                [doc.token_endpoint EXCEPT
                    !.path = NoTrailingSlash(@) \o <<"/", "request">>]
           /\ sp.KubeAdminLogout =
                [doc.issuer EXCEPT !.path = NoTrailingSlash(@) \o <<"/", "logout">>]
           /\ (doc.issuer = URL("https", "oauth.example", <<>>)
                 /\ doc.token_endpoint = URL("https", "oauth.example", <<"/", "token">>)) =>
                /\ sp.RequestToken =
                      URL("https", "oauth.example", <<"/", "token", "/", "request">>)
                /\ sp.KubeAdminLogout =
                      URL("https", "oauth.example", <<"/", "logout">>)

C17_Witness ==
    /\ last.op = "newOpenShiftAuth" /\ last.err = NoErr
    /\ last.doc.token_endpoint = URL("https", "oauth.example", <<"/", "token", "/">>)
    /\ last.doc.issuer = URL("https", "oauth.example", <<"/">>)
    /\ last.lm.specialURLs.KubeAdminLogout = URL("https", "oauth.example", <<"/", "logout">>)

\* the string is a URL with a scheme and a host
IsAbsolute(u) == ~u.bad /\ u.scheme # "" /\ u.host # ""

-----------------------------------------------------------------------------
(* Claims about failures inside the retry loop *)

\* the file cannot be read or holds no certificate
UnusableCA(path) ==
    path # "" /\ (~files[path].exists \/ ~AppendCertsFromPEM(files[path].data))

\* what newUnstartedAuthenticator fails with in the current state, NoErr if
\* it succeeds
UnstartedError ==
    IF cfg.IssuerCA # "" /\ ~files[cfg.IssuerCA].exists THEN "load issuer CA file"
    ELSE IF UnusableCA(cfg.IssuerCA) THEN "contained no CA data"
    ELSE IF cfg.RefererPath.bad THEN "parse error"
    ELSE NoErr

\* C27: inside NewAuthenticator's loop a failure of newUnstartedAuthenticator
\* (issuer CA unreadable or without CA data, RefererPath unparseable) is
\* fatal at whichever iteration it occurs: NewAuthenticator returns that
\* error at once, with no sleep and no further attempt; a failure to load the
\* K8s CA in the OpenShift path is counted and retried like a discovery
\* failure.
C27_UnstartedFailureIsFatal ==
    [][ pc = "loop" =>
          /\ UnstartedError # NoErr =>
                /\ pc' = "returned"
                /\ retErr' = UnstartedError
                /\ auth' = Nil
                /\ slept' = slept /\ attempts' = attempts /\ steps' = steps
          /\ (/\ UnstartedError = NoErr
              /\ cfg.AuthSource = AuthSourceOpenShift
              /\ UnusableCA(cfg.K8sCA)) =>
                /\ steps' = steps + 1
                /\ attempts' = Saturate(attempts + 1, AttemptCap)
                /\ IF steps' > maxSteps
                   THEN pc' = "returned" /\ retErr' # NoErr /\ auth' = Nil
                   ELSE pc' = "sleep" ]_vars

C27_Witness ==
    /\ pc = "returned"
    /\ retErr = "contained no CA data"
    /\ cfg.AuthSource = AuthSourceOpenShift
    /\ UnusableCA(cfg.IssuerCA)
    /\ UnusableCA(cfg.K8sCA)
    /\ steps = 2 /\ attempts = 2 /\ slept = 2 * backoff

-----------------------------------------------------------------------------
(* Claims about the Config *)

\* C20: NewAuthenticator never mutates the Config it is given: when it has
\* returned, with an Authenticator or with an error and after any number of
\* retries, every field of the Config, CookiePath included, has the value it
\* was passed with.
C20_ConfigNeverMutated ==
    pc = "returned" => cfg = cfg0

\* C21: construction fails unless Config.RefererPath parses as an absolute
\* URL: with an empty, relative or path-only RefererPath NewAuthenticator
\* returns an error, and no Authenticator has a refererURL without scheme and
\* host.
C21_RefererMustBeAbsolute ==
    pc = "returned" =>
        /\ (cfg0.RefererPath.scheme = "" \/ cfg0.RefererPath.host = "") =>
                (retErr # NoErr /\ auth = Nil)
        /\ auth # Nil => (auth.refererURL.scheme # "" /\ auth.refererURL.host # "")

-----------------------------------------------------------------------------
(* Claims about startup and dispatch *)

\* C18: with user-auth=disabled and k8s-auth=bearer-token with token T,
\* startup leaves a static user whose Token is T and no Authenticator
\* registry, and every request is served as User{Token: T} whatever cookie it
\* carries; a started server has a static user exactly when k8s-auth is
\* service-account or bearer-token.
C18_StaticUser ==
    /\ pc = "main:serving" =>
        /\ srv.StaticUser # Nil <=> flags.k8sAuth \in {"service-account", "bearer-token"}
        /\ (flags.userAuth = "disabled" /\ flags.k8sAuth = "bearer-token") =>
              /\ srv.StaticUser = [Token |-> flags.k8sAuthBearerToken]
              /\ srv.Authers = Nil
    /\ (/\ last.op = "request"
        /\ flags.userAuth = "disabled" /\ flags.k8sAuth = "bearer-token") =>
            last.user = [Token |-> flags.k8sAuthBearerToken]

C18_Witness ==
    /\ last.op = "request"
    /\ flags.userAuth = "disabled" /\ flags.k8sAuth = "bearer-token"
    /\ flags.k8sMode = "in-cluster"
    /\ flags.k8sAuthBearerToken = "abc123"
    /\ last.cookie = "T1"
    /\ last.user = [Token |-> "abc123"]

\* the registries hold the cluster name
Routable(cluster) ==
    /\ cluster \in DOMAIN srv.K8sProxyConfigs
    /\ srv.StaticUser = Nil => cluster \in DOMAIN srv.Authers

\* C19: a request whose cluster name is not a key of the registries is a
\* routing failure; it is never dispatched to the local cluster's proxy
\* config or authenticator.
C19_UnknownClusterIsRoutingFailure ==
    (last.op = "request" /\ ~Routable(last.cluster)) =>
        /\ last.status = 404
        /\ last.proxy = Nil
        /\ last.auther = Nil

C19_Witness ==
    /\ last.op = "request"
    /\ last.cluster = "east-1"
    /\ ~Routable("east-1")
    /\ Routable(LocalClusterName)
    /\ srv.StaticUser = Nil
    /\ last.cookie = "T1"
    /\ last.status = 404

-----------------------------------------------------------------------------
(* Claims about the backends registered at startup *)

\* C22: a CA bundle of a configured backend, managed clusters included, that
\* cannot be read or holds no certificate is fatal to startup: the process
\* does not reach the serving state when a backend's CA bundle failed
\* validation.
C22_BadCABundleIsFatal ==
    pc = "main:serving" =>
        /\ flags.k8sMode = "in-cluster" =>
              /\ flags.k8sInClusterCA = "valid"
              /\ flags.serviceCAFile \in {"", "valid"}
        /\ \A i \in DOMAIN flags.managedClusterConfigs :
              flags.managedClusterConfigs[i].caOK

\* every proxy.Config the server holds
RegisteredProxyConfigs ==
    {srv.K8sProxyConfigs[n] : n \in DOMAIN srv.K8sProxyConfigs}
        \cup {srv.Services[n] : n \in DOMAIN srv.Services}

Elems(q) == {q[i] : i \in DOMAIN q}

\* C23: every Proxy Config startup registers, in every mode, has a header
\* blacklist with both "Cookie" and "X-CSRFToken".
C23_BlacklistHasCookieAndCSRF ==
    \A c \in RegisteredProxyConfigs :
        {"Cookie", "X-CSRFToken"} \subseteq Elems(c.HeaderBlacklist)

C23_Witness ==
    /\ pc = "main:serving"
    /\ flags.k8sMode = "in-cluster"
    /\ DOMAIN srv.K8sProxyConfigs = {LocalClusterName, "east-1", "west-2"}
    /\ DOMAIN srv.Services = DOMAIN inClusterServices \cup DOMAIN clusterManagement

\* C25: the process serves only after NewAuthenticator has returned an
\* Authenticator for the local cluster and for every managed cluster, exits
\* without serving when one of them fails, and once it serves no entry of the
\* Authenticator or Proxy Config registries is added or changed.
C25_ServeAfterConstruction ==
    /\ [](  (pc = "main:serving" /\ flags.userAuth \in {"oidc", "openshift"}) =>
              /\ flags.localAuthOK
              /\ \A i \in DOMAIN flags.managedClusterConfigs :
                    flags.managedClusterConfigs[i].authOK
              /\ DOMAIN srv.Authers =
                    {LocalClusterName} \cup
                    {flags.managedClusterConfigs[i].Name :
                        i \in DOMAIN flags.managedClusterConfigs})
    /\ [][pc = "main:serving" => (pc' = "main:serving" /\ srv' = srv)]_vars

C25_Witness ==
    /\ pc = "main:serving"
    /\ flags.userAuth = "openshift"
    /\ Len(flags.managedClusterConfigs) = MaxManaged
    /\ DOMAIN srv.Authers = {LocalClusterName} \cup ManagedNames
    /\ last.op = "request"
    /\ last.cluster = "west-2"

\* C40: when user authentication is enabled, at the moment serving begins the
\* cluster names of the Authenticator registry are those of the Kubernetes
\* Proxy Config registry, also for managed clusters whose API-server URL or
\* CA file was rejected when the proxy configs were built.
C40_RegistriesAgree ==
    (pc = "main:serving" /\ flags.userAuth \in {"oidc", "openshift"}) =>
        DOMAIN srv.Authers = DOMAIN srv.K8sProxyConfigs

-----------------------------------------------------------------------------
(* Claims about cookie attributes *)

\* C24: every cookie the authentication core issues (the session cookie on
\* login, the clearing cookie on logout, the state cookie, the CSRF cookie),
\* for the local and every managed-cluster Authenticator, carries Secure if
\* and only if the scheme of the configured base URL is https.
C24_SecureIffHTTPS ==
    \A k \in DOMAIN jar : jar[k].Secure <=> flags.baseScheme = "https"

C24_Witness ==
    /\ flags.baseScheme = "http"
    /\ cfg.ClusterName = "east-1"
    /\ last.op = "Logout" /\ last.afterLogin
    /\ \E k \in DOMAIN jar : k[1] = stateCookieName /\ ~jar[k].Secure
    /\ \E k \in DOMAIN jar : k[1] = CSRFCookieName /\ ~jar[k].Secure
    /\ \E k \in DOMAIN jar :
          k[1] = GetCookieName("east-1") /\ jar[k].Value = "" /\ ~jar[k].Secure

-----------------------------------------------------------------------------
(* Claims about the OpenShift login method *)

\* C31: openShiftAuth.login with an empty access token returns an error and
\* sets no cookie (the handler answers with the internal-error redirect and
\* does not continue); with a non-empty access token it sets exactly one
\* cookie, the session cookie named for the login method's cluster, whose
\* value is the access token, and the LoginState it returns has that token
\* as its raw token.
C31_LoginNeedsAccessToken ==
    (last # NoCall /\ last.op = "Login" /\ last.ex.ok) =>
        IF last.ex.AccessToken = ""
        THEN /\ last.resp.cookies = <<>>
             /\ last.fn = <<>>
             /\ IsAuthErrorRedirect(last.resp, errorInternal)
        ELSE /\ Len(last.resp.cookies) = 1
             /\ last.resp.cookies[1].Name = GetCookieName(cfg.ClusterName)
             /\ last.resp.cookies[1].Value = last.ex.AccessToken
             /\ Len(last.fn) = 1
             /\ last.fn[1].loginInfo.rawToken = last.ex.AccessToken

\* both cases on a managed cluster's login method: a login that set the
\* cluster's cookie, then one refused for its empty token, the cookie kept
C31_Witness ==
    /\ last # NoCall /\ last.op = "Login" /\ last.ex.ok
    /\ last.ex.AccessToken = ""
    /\ last.resp.cookies = <<>>
    /\ cfg.ClusterName = "east-1"
    /\ \E ck \in Held(jar, GetCookieName("east-1")) : ck.Value = "T1"
    /\ Held(jar, GetCookieName(LocalClusterName)) = {}

\* C32: the round trip of the OpenShift variant.  Authenticate on a request
\* for cluster C returns User{Token: v}, with empty ID and Username, for any
\* non-empty value v of C's session cookie, and fails when that cookie is
\* missing or empty; so a request carrying the cookies the browser holds
\* right after a login for C succeeded with access token T yields
\* User{Token: T}.
C32_LoginAuthenticateRoundTrip ==
    (last # NoCall /\ last.op = "Authenticate") =>
        LET name == GetCookieName(last.cluster)
            sent == name \in DOMAIN last.req.cookies
        IN /\ IF sent /\ last.req.cookies[name] # ""
              THEN /\ last.err = NoErr
                   /\ last.user = [nil |-> FALSE, ID |-> "", Username |-> "",
                                   Token |-> last.req.cookies[name]]
              ELSE /\ last.err # NoErr
                   /\ last.user = Nil
           /\ (last.fromJar /\ last.afterLogin # Nil
                 /\ last.afterLogin.cluster = last.cluster) =>
                 /\ last.err = NoErr
                 /\ last.user = [nil |-> FALSE, ID |-> "", Username |-> "",
                                 Token |-> last.afterLogin.token]

\* the round trip on the managed cluster, the provider down by then
C32_Witness ==
    /\ last # NoCall /\ last.op = "Authenticate"
    /\ last.cluster = "east-1"
    /\ last.fromJar
    /\ last.afterLogin # Nil
    /\ last.afterLogin.cluster = "east-1"
    /\ last.user # Nil
    /\ last.user.Token = "T1"
    /\ provider = ProviderDown

\* what Authenticate for cluster b returns on the cookies of jar j
AuthenticateWith(b, j) ==
    userFunc(srv.Authers[b], [cluster |-> b, cookies |-> SentCookies(j)])

\* C33: the sessions of different clusters are independent.  A login begun,
\* a callback or a logout on the Authenticator of one cluster leaves the
\* session cookie the browser holds for any other cluster b untouched, so
\* Authenticate for b returns after the operation what it returned before.
C33_ClustersIndependent ==
    [][\A b \in DOMAIN srv.Authers :
          (last'.op \in {"LoginFunc", "Callback", "Logout"} /\ last'.cluster # b) =>
             /\ Held(jar', GetCookieName(b)) = Held(jar, GetCookieName(b))
             /\ AuthenticateWith(b, jar') = AuthenticateWith(b, jar)]_vars

\* signed in to both clusters, then signed out of the local one: the managed
\* cluster's session is as it was
C33_Witness ==
    /\ last # NoCall /\ last.op = "Logout" /\ last.cluster = LocalClusterName
    /\ \E ck \in Held(jar, GetCookieName("east-1")) : ck.Value = "T1"
    /\ \E ck \in Held(jar, GetCookieName(LocalClusterName)) : ck.Value = ""
    /\ AuthenticateWith("east-1", jar).err = NoErr
    /\ AuthenticateWith(LocalClusterName, jar).err # NoErr

\* C34: for the OpenShift variant LogoutFunc always answers 204 with the one
\* Set-Cookie that clears the cluster's session cookie (empty value, zero
\* max-age, the path, domain and Secure flag of the Authenticator), whether
\* the discovery its authFunc call runs succeeds or fails; it never answers
\* with an error because the provider is unreachable.
C34_LogoutNeedsNoProvider ==
    (last # NoCall /\ last.op = "Logout") =>
        /\ last.resp.status = 204
        /\ last.resp.Location = EmptyURL
        /\ Len(last.resp.cookies) = 1
        /\ last.resp.cookies[1].Name = GetCookieName(last.cluster)
        /\ last.resp.cookies[1].Value = ""
        /\ last.resp.cookies[1].MaxAge = 0
        /\ last.resp.cookies[1].Path = srv.Authers[last.cluster].cookiePath
        /\ last.resp.cookies[1].Domain = srv.Authers[last.cluster].cookieDomain
        /\ last.resp.cookies[1].Secure = srv.Authers[last.cluster].secureCookies
        /\ last.discovered <=> last.prov \in {ProviderE1, ProviderE2}

\* a logout on the managed cluster while the provider is down, which cleared
\* the cookie of an earlier login
C34_Witness ==
    /\ last # NoCall /\ last.op = "Logout" /\ last.cluster = "east-1"
    /\ ~last.discovered
    /\ last.prov = ProviderDown
    /\ last.resp.status = 204
    /\ \E ck \in Held(jar, GetCookieName("east-1")) : ck.Value = ""
    /\ Len(issued) = 1

-----------------------------------------------------------------------------
(* Claims about the state of a login *)

HexDigits ==
    {"0", "1", "2", "3", "4", "5", "6", "7", "8", "9", "a", "b", "c", "d", "e", "f"}

\* C35: every LoginFunc call sets exactly one cookie, the state cookie (fixed
\* name, HttpOnly, path "/"), whose value is the 8 hexadecimal characters
\* generated for this call, and answers 303 with the provider's authorization
\* URL carrying that value as its state parameter; a callback that comes next
\* and echoes this state, the browser sending this cookie, passes the state
\* check.
C35_LoginIssuesState ==
    /\ []((last # NoCall /\ last.op = "LoginFunc") =>
            /\ last.resp.status = 303
            /\ Len(last.resp.cookies) = 1
            /\ last.resp.cookies[1].Name = stateCookieName
            /\ last.resp.cookies[1].HttpOnly
            /\ last.resp.cookies[1].Path = "/"
            /\ Len(last.resp.cookies[1].Value) = 8
            /\ \A i \in 1..8 : last.resp.cookies[1].Value[i] \in HexDigits
            /\ last.resp.cookies[1].Value = issued[1].state
            /\ last.resp.Location.scheme = last.endpoint.AuthURL.scheme
            /\ last.resp.Location.host = last.endpoint.AuthURL.host
            /\ last.resp.Location.path = last.endpoint.AuthURL.path
            /\ \A kv \in last.resp.Location.query :
                  kv[1] = "state" => kv[2] = last.resp.cookies[1].Value
            /\ \E kv \in last.resp.Location.query : kv[1] = "state")
    /\ [][(/\ last.op = "LoginFunc"
           /\ last'.op = "Callback"
           /\ last'.req.state = last.resp.cookies[1].Value) =>
             /\ last'.req.cookies[stateCookieName] = last.resp.cookies[1].Value
             /\ last'.exchanged]_vars

\* the callback of the one login begun, echoing a state with leading zeros
C35_Witness ==
    /\ last # NoCall /\ last.op = "Callback"
    /\ last.exchanged
    /\ Len(issued) = 1
    /\ issued[1].cluster = last.cluster
    /\ last.req.state = issued[1].state
    /\ last.req.state = <<"0", "0", "0", "a", "f", "f", "1", "0">>

\* C36: the state cookie has one name, path "/" and one domain for all the
\* cluster Authenticators, so the browser holds one state at a time, that of
\* the LoginFunc call made last.  When two logins, of the same or of
\* different clusters, were begun with different states, only a callback
\* that carries the state issued last passes the state check; the callback
\* of the earlier login ends in invalid_state.
C36_LaterLoginReplacesState ==
    /\ Cardinality(Held(jar, stateCookieName)) <= 1
    /\ issued # <<>> =>
          \E ck \in Held(jar, stateCookieName) : ck.Value = issued[1].state
    /\ (/\ last # NoCall
        /\ last.op = "Callback"
        /\ Len(issued) = 2
        /\ issued[1].state # issued[2].state) =>
          /\ last.exchanged <=> last.req.state = issued[1].state
          /\ last.req.state = issued[2].state =>
                IsAuthErrorRedirect(last.resp, errorInvalidState)

\* a login of the managed cluster begun after one of the local cluster: the
\* local cluster's callback, carrying the earlier state, is refused
C36_Witness ==
    /\ last # NoCall /\ last.op = "Callback"
    /\ Len(issued) = 2
    /\ issued[1].cluster = "east-1"
    /\ issued[2].cluster = LocalClusterName
    /\ issued[1].state # issued[2].state
    /\ last.cluster = LocalClusterName
    /\ last.req.state = issued[2].state
    /\ ~last.exchanged
    /\ IsAuthErrorRedirect(last.resp, errorInvalidState)

\* C37: the callback handler never attempts a token exchange for a request
\* whose state parameter is absent or empty, also when the request carries a
\* state cookie with an empty value.
C37_NoExchangeWithoutState ==
    (last # NoCall /\ last.op = "Callback" /\ last.req.state = "") =>
        ~last.exchanged

\* C38: the callback handler keeps no record of the states it has seen and
\* leaves the state cookie as it is.  No callback, passed or refused, changes
\* the state cookie the browser holds; so when a callback has passed the
\* state check, the callback that follows with the same state parameter
\* carries the same state cookie, passes the check again and reaches the
\* token exchange, however often this is repeated.
C38_StateCanBeReplayed ==
    [][/\ last'.op = "Callback" =>
             Held(jar', stateCookieName) = Held(jar, stateCookieName)
       /\ (/\ last.op = "Callback"
           /\ last.exchanged
           /\ last'.op = "Callback"
           /\ last'.req.state = last.req.state) =>
             /\ stateCookieName \in DOMAIN last'.req.cookies
             /\ last'.req.cookies[stateCookieName] = last.req.cookies[stateCookieName]
             /\ last'.exchanged]_vars

\* the second callback of one login: the first signed the browser in, this
\* one was sent with the session cookie and the same state, and was exchanged
C38_Witness ==
    /\ last # NoCall /\ last.op = "Callback"
    /\ last.exchanged
    /\ Len(issued) = 1
    /\ last.req.state = issued[1].state
    /\ GetCookieName(last.cluster) \in DOMAIN last.req.cookies
    /\ last.req.cookies[GetCookieName(last.cluster)] = "T1"
    /\ last.ex = ExchangeFails
    /\ \E ck \in Held(jar, stateCookieName) : ck.Value = issued[1].state

-----------------------------------------------------------------------------
(* Claims about concurrent authFunc calls *)

\* the endpoint and the special URLs are those of one metadata document
FromDocument(x) ==
    /\ x.doc # Nil
    /\ x.struct.Endpoint = [AuthURL |-> x.doc.authorization_endpoint,
                            TokenURL |-> x.doc.token_endpoint]
    /\ x.lm.kind = "openshift"
    /\ x.lm.specialURLs.RequestToken =
          SingleJoiningSlash(x.doc.token_endpoint, <<"/", "request">>)
    /\ x.lm.specialURLs.KubeAdminLogout =
          SingleJoiningSlash(x.doc.issuer, <<"/", "logout">>)

\* the endpoint and the login method are those of construction
FromConstruction(x) ==
    /\ x.struct.Endpoint = auth.fallbackEndpoint
    /\ x.lm = auth.fallbackLoginMethod

\* C39: after NewAuthenticator returned an Authenticator, every authFunc
\* call, whatever the provider does and however the calls of two goroutines
\* interleave, returns a config and a login method that are not nil, whose
\* endpoint and login method come from one discovery (the document this call
\* fetched, or the discovery of construction), with the ClientID,
\* ClientSecret, RedirectURL and Scopes of the Config; the struct a call
\* returned is never changed by another call.
C39_AuthFuncResultsConsistent ==
    \A x \in returned :
        /\ x.config \in DOMAIN heap
        /\ heap[x.config] = x.struct
        /\ x.lm # Nil
        /\ x.struct.ClientID = cfg.ClientID
        /\ x.struct.ClientSecret = cfg.ClientSecret
        /\ x.struct.RedirectURL = cfg.RedirectURL
        /\ x.struct.Scopes = cfg.Scope
        /\ FromDocument(x) \/ FromConstruction(x)
        /\ ~x.discovered => FromConstruction(x)

\* goroutine 1 returned the endpoints of a changed provider, goroutine 2 the
\* construction-time pair, and goroutine 1 is inside its next call
C39_Witness ==
    /\ auth.userFunc = "getOpenShiftUser"
    /\ threads[1].pc = "head"
    /\ \E x, y \in returned :
          /\ x.t = 1 /\ y.t = 2
          /\ x.config # y.config
          /\ x.discovered /\ x.doc.issuer.host = "oauth2.example"
          /\ FromDocument(x) /\ ~FromConstruction(x)
          /\ ~y.discovered /\ FromConstruction(y)

-----------------------------------------------------------------------------
(* Claims about the HTTP client cache *)

\* C7: of two newHTTPClient calls made one after the other with the same
\* includeSystemRoots flag, the second returns the first's client instance
\* exactly when the two CA files held the same valid bytes, whatever their
\* paths; after the content of a path changed to other valid bytes the call
\* returns a different client.
C7_SameContentSameClient ==
    \A x, y \in returned :
        x.sys = y.sys => (x.data = y.data <=> x.client = y.client)

C7_Witness ==
    /\ Cardinality(DOMAIN threads) = 1
    /\ \E x, y \in returned :
          x.sys = y.sys /\ x.path # y.path /\ x.data = y.data /\ x.client = y.client
    /\ \E x, y \in returned :
          x.sys = y.sys /\ x.path = y.path /\ x.data # y.data /\ x.client # y.client

\* C8: under any interleaving of concurrent newHTTPClient calls every caller
\* presenting the same content and flag receives the same client instance,
\* the one the cache map holds for that content: no entry is written twice or
\* replaced by a different instance.
C8_OneInstancePerContent ==
    /\ \A x, y \in returned :
          (x.sys = y.sys /\ x.data = y.data) => x.client = y.client
    /\ \A x \in returned :
          /\ x.data \in DOMAIN Cache(x.sys)
          /\ Cache(x.sys)[x.data] = x.client

\* the goroutine whose step this is made no Store
NoStoreStep(t) ==
    /\ threads[t].pc \in {"idle", "load"}
    /\ threads'[t] # threads[t]

\* map m became m2 by one entry written under key
WroteOnly(m, m2, key) ==
    /\ key \in DOMAIN m2
    /\ \A k \in DOMAIN m2 \ {key} : k \in DOMAIN m /\ m2[k] = m[k]

\* C30: a newHTTPClient call changes the cache maps by one Store at most: the
\* entry is written under the content the call read, in the map its
\* includeSystemRoots selects, and that content held CA data; the other map is
\* untouched.  The steps of calls that return the default client, fail or
\* hit the cache leave both maps as they were.  No key is ever removed, and
\* every key is content holding CA data.
C30_OnlyStoresChangeTheMaps ==
    /\ [](DOMAIN httpClientCache \subseteq ValidContents
          /\ DOMAIN httpClientCacheSystemRoots \subseteq ValidContents)
    /\ [][/\ DOMAIN httpClientCache \subseteq DOMAIN httpClientCache'
          /\ DOMAIN httpClientCacheSystemRoots \subseteq DOMAIN httpClientCacheSystemRoots'
          /\ \A t \in DOMAIN threads :
                NoStoreStep(t) =>
                   UNCHANGED <<httpClientCache, httpClientCacheSystemRoots>>
          /\ (httpClientCache' # httpClientCache
                 \/ httpClientCacheSystemRoots' # httpClientCacheSystemRoots) =>
                \E t \in DOMAIN threads :
                   /\ threads[t].pc = "store"
                   /\ threads'[t].pc = "idle"
                   /\ threads[t].data \in ValidContents
                   /\ IF threads[t].sys
                      THEN /\ UNCHANGED httpClientCache
                           /\ WroteOnly(httpClientCacheSystemRoots,
                                        httpClientCacheSystemRoots', threads[t].data)
                      ELSE /\ UNCHANGED httpClientCacheSystemRoots
                           /\ WroteOnly(httpClientCache, httpClientCache',
                                        threads[t].data)]_vars

\* both maps gained an entry after startup, a later call on another path hit
\* one of them, and the goroutines are idle
C30_Witness ==
    /\ Cardinality(DOMAIN threads) = 2
    /\ \A t \in DOMAIN threads : threads[t].pc = "idle"
    /\ DOMAIN httpClientCache = ValidContents
    /\ DOMAIN httpClientCacheSystemRoots = ValidContents
    /\ \E x, y \in returned :
          /\ x.path # y.path /\ x.sys = y.sys /\ x.data = y.data
          /\ x.client = y.client
          /\ x.client = Cache(x.sys)[x.data]

====
